---- MODULE Spec2Model ----
(***************************************************************************)
(* Client / agent data-access layer (app/crud.py over app/models.py).      *)
(*                                                                         *)
(* The store is the committed content of the relational tables.  Request   *)
(* handlers run as processes; each crud function is cut at its database    *)
(* round trips (a SELECT, a flush, a commit), which is where PostgreSQL's   *)
(* READ COMMITTED isolation lets another transaction commit in between.    *)
(* Rows written by a flush stay private to the transaction (txn[p]) until  *)
(* its commit publishes them.  Constraints declared in models.py (foreign  *)
(* keys, NOT NULL, UNIQUE, ON DELETE CASCADE / RESTRICT) are enforced by   *)
(* the store at the statement that writes.                                 *)
(***************************************************************************)
EXTENDS Integers, Sequences, FiniteSets, TLC

\* ---------------------------------------------------------------- bounds
\* Insert attempts per table (each attempt draws a value from the table's
\* sequence / a fresh uuid, so these also bound the ids in play).
MaxAgents == 2
MaxClients == 2
MaxPhones == 2
MaxDocs == 1
\* Ticks of the database clock.
MaxTime == 2

\* Request handlers running against the shared store.
Procs == {"p1", "p2"}

\* Python None / SQL NULL in a text column, and in an id column.
NULL == "NULL"
NoId == 0

VARIABLES
    agents,                 \* AGENT: agent_id -> row
    clients,                \* CLIENT: client_id -> row
    phones,                 \* PHONE: phone_id -> row
    passports,              \* PASSPORT: passport_id -> row
    snils,                  \* SNILS: snils_id -> row
    statuses,               \* STATUS: set of rows [status_code, description]
    stages,                 \* STAGE: set of rows [stage_code, description]
    agent_external_id_seq,  \* last value nextval('agent_external_id_seq') returned
    client_external_id_seq, \* last value nextval('client_external_id_seq') returned
    phone_id_seq,           \* last value of PHONE.phone_id's serial
    uuids,                  \* uuid4 draws so far, per table
    pc,                     \* pc[p]: where handler p stands
    txn,                    \* txn[p]: the handler's session (arguments, loaded and pending rows)
    result,                 \* result[p]: what p's last finished call returned or raised
    hist,                   \* history of issuance and deletion (observation only)
    now                     \* the database server's clock (what now() returns to a new transaction)

store == <<agents, clients, phones, passports, snils, statuses, stages>>
seqs == <<agent_external_id_seq, client_external_id_seq, phone_id_seq, uuids>>
vars == <<agents, clients, phones, passports, snils, statuses, stages,
          agent_external_id_seq, client_external_id_seq, phone_id_seq, uuids,
          pc, txn, result, hist, now>>

\* ---------------------------------------------------------------- helpers
Put(f, k, v) == [x \in DOMAIN f \cup {k} |-> IF x = k THEN v ELSE f[x]]
Drop(f, S) == [x \in DOMAIN f \ S |-> f[x]]
Range(s) == {s[i] : i \in DOMAIN s}
MaxOf(S) == IF S = {} THEN 0 ELSE CHOOSE m \in S : \A x \in S : x <= m
\* Python's `a or b` on an optional string: None and "" are falsy.
OrElse(a, b) == IF a = NULL \/ a = "" THEN b ELSE a

\* ---------------------------------------------------------------- rows
\* (variant) a missing correspondent account is stored as the empty string,
\* as a missing first or middle name is.
AgentRowBlankDefault(agent_in, ext) ==
    [ external_id |-> ext,
      last_name |-> agent_in.last_name,
      first_name |-> OrElse(agent_in.first_name, ""),
      middle_name |-> OrElse(agent_in.middle_name, ""),
      legal_address |-> agent_in.legal_address,
      actual_address |-> agent_in.actual_address,
      inn |-> agent_in.inn,
      ogrnip |-> agent_in.ogrnip,
      account_number |-> agent_in.account_number,
      correspondent_account |-> OrElse(agent_in.correspondent_account, ""),
      bic |-> agent_in.bic ]

\* models.Agent: the columns crud.create_agent fills from AgentCreate.
AgentRow(agent_in, ext) ==
    [ external_id |-> ext,
      last_name |-> agent_in.last_name,
      first_name |-> OrElse(agent_in.first_name, ""),
      middle_name |-> OrElse(agent_in.middle_name, ""),
      legal_address |-> agent_in.legal_address,
      actual_address |-> agent_in.actual_address,
      inn |-> agent_in.inn,
      ogrnip |-> agent_in.ogrnip,
      account_number |-> agent_in.account_number,
      correspondent_account |-> OrElse(agent_in.correspondent_account, agent_in.account_number),
      bic |-> agent_in.bic ]

\* models.Client: the columns crud.create_client fills from ClientCreate; the
\* two timestamps take server_default now(), the start of the transaction.
ClientRow(client_in, ext, at) ==
    [ external_id |-> ext,
      last_name |-> client_in.last_name,
      first_name |-> client_in.first_name,
      middle_name |-> OrElse(client_in.middle_name, ""),
      status_code |-> client_in.status_code,
      current_stage |-> client_in.current_stage,
      agent_id |-> client_in.agent_id,
      deadline |-> client_in.deadline,
      created_at |-> at,
      updated_at |-> at,
      notes |-> client_in.notes ]

\* Column names a partial update can reach with setattr (primary keys aside).
AgentTextColumns == {"last_name", "first_name", "middle_name", "legal_address",
                     "actual_address", "inn", "ogrnip", "account_number",
                     "correspondent_account", "bic"}
AgentColumns == AgentTextColumns \cup {"external_id"}
ClientTextColumns == {"last_name", "first_name", "middle_name", "status_code",
                      "current_stage", "deadline", "notes"}
ClientColumns == ClientTextColumns \cup {"external_id", "agent_id", "created_at", "updated_at"}

\* nullable=False text columns.
AgentNotNull == AgentTextColumns \ {"middle_name"}
ClientNotNull == {"last_name", "first_name", "status_code", "current_stage"}

\* ---------------------------------------------------------------- sequences
\* nextval(): the sequence advances and the new value is returned; the
\* advance is never undone by a rollback.
NextVal(seq) == seq + 1

\* ---------------------------------------------------------------- constraints
\* The primary-key values present in STATUS and STAGE.
StatusCodes == {r.status_code : r \in statuses}
StageCodes == {r.stage_code : r \in stages}

\* db.get(models.Status, code) / db.get(models.Stage, code) of an existing code.
GetStatus(code) == CHOOSE r \in statuses : r.status_code = code
GetStage(code) == CHOOSE r \in stages : r.stage_code = code

\* UNIQUE(external_id): no other committed row holds the value.
ExternalIdFree(tbl, id, ext) == \A k \in DOMAIN tbl \ {id} : tbl[k].external_id # ext

\* What the AGENT table accepts as row `id`.
AgentRowOK(tbl, id, row) ==
    /\ \A c \in AgentNotNull : row[c] # NULL
    /\ row.external_id # NoId
    /\ ExternalIdFree(tbl, id, row.external_id)

\* (variant) status_code and current_stage are plain columns, not foreign keys.
ClientRowOKNoLookup(id, row) ==
    /\ \A c \in ClientNotNull : row[c] # NULL
    /\ row.external_id # NoId
    /\ ExternalIdFree(clients, id, row.external_id)
    /\ row.agent_id \in DOMAIN agents

\* What the CLIENT table accepts as row `id`: NOT NULL, UNIQUE, and the three
\* foreign keys (STATUS, STAGE, AGENT).
ClientRowOK(id, row) ==
    /\ \A c \in ClientNotNull : row[c] # NULL
    /\ row.external_id # NoId
    /\ ExternalIdFree(clients, id, row.external_id)
    /\ row.status_code \in StatusCodes
    /\ row.current_stage \in StageCodes
    /\ row.agent_id \in DOMAIN agents

\* (variant) the foreign key is not declared: nothing is ever refused.
AgentReferencedUnchecked(aid) == FALSE

\* A committed CLIENT row references the agent
\* (ForeignKey("AGENT.agent_id", ondelete="RESTRICT")).
AgentReferenced(aid) == \E c \in DOMAIN clients : clients[c].agent_id = aid

\* Another open transaction has inserted a CLIENT row referencing the agent:
\* its key-share lock on the AGENT row makes a DELETE of that row wait.
AgentLocked(aid) ==
    \E q \in Procs : pc[q] = "create_client_flushed" /\ txn[q].row.agent_id = aid

\* Another open transaction has inserted a row holding the external id: the
\* unique index makes a statement writing the same value wait for it.
AgentExternalIdLocked(p, ext) ==
    \E q \in Procs \ {p} : pc[q] = "create_agent_flushed" /\ txn[q].row.external_id = ext
ClientExternalIdLocked(p, ext) ==
    \E q \in Procs \ {p} : pc[q] = "create_client_flushed" /\ txn[q].row.external_id = ext

\* ON DELETE CASCADE from CLIENT: the owned rows of a table that go with it.
OwnedBy(tbl, cid) == {k \in DOMAIN tbl : tbl[k].client_id = cid}
\* (variant) no ON DELETE CASCADE: the owned rows stay behind.
CascadeDeleteMissing(tbl, cid) == tbl
CascadeDelete(tbl, cid) == Drop(tbl, OwnedBy(tbl, cid))

\* ---------------------------------------------------------------- initial state
\* The lookup rows the seed migration inserts.
SeedStatuses ==
    { [status_code |-> c, description |-> "description of " \o c] :
        c \in {"WORKING", "IN_PROGRESS", "CANCELLED", "DONE"} }
SeedStages ==
    { [stage_code |-> c, description |-> "description of " \o c] :
        c \in {"S_INVAL", "MTZ", "IPRA", "WAIT_CERT", "PROB_CERT", "WAIT_PARTS",
                "CONTRACT_SENT", "PROSTHESIS", "DONE"} }

NoTxn == [op |-> "none"]
NoResult == [op |-> "none", kind |-> "none"]

\* Migrated, seeded, otherwise empty database: both sequences START 1 and have
\* not been called.
Init ==
    /\ agents = << >>
    /\ clients = << >>
    /\ phones = << >>
    /\ passports = << >>
    /\ snils = << >>
    /\ statuses = SeedStatuses
    /\ stages = SeedStages
    /\ agent_external_id_seq = 0
    /\ client_external_id_seq = 0
    /\ phone_id_seq = 0
    /\ uuids = [agent |-> 0, client |-> 0, passport |-> 0, snils |-> 0]
    /\ pc = [p \in Procs |-> "idle"]
    /\ txn = [p \in Procs |-> NoTxn]
    /\ result = [p \in Procs |-> NoResult]
    /\ now = 0
    /\ hist = [ agentIssued |-> << >>, clientIssued |-> << >>,
                agentCreated |-> << >>, clientCreated |-> << >>,
                deletedClients |-> {}, createdWith |-> << >>, cascaded |-> << >> ]

\* The largest limit the clients endpoint accepts (Query(50, ge=1, le=200)).
MaxLimit == 200

\* The handler returns or raises: its session is closed and the outcome kept.
Finish(p, r) ==
    /\ pc' = [pc EXCEPT ![p] = "idle"]
    /\ txn' = [txn EXCEPT ![p] = NoTxn]
    /\ result' = [result EXCEPT ![p] = r]

\* The handler goes on to its next statement; a call that begins drops what
\* the previous call returned.
Goto(p, label, t) ==
    /\ pc' = [pc EXCEPT ![p] = label]
    /\ txn' = [txn EXCEPT ![p] = t]
    /\ result' = [result EXCEPT ![p] = NoResult]

\* Rows an open handler is still going to insert, so that the bounds stop a
\* handler before it starts, never in the middle of its transaction.
PendingClients == Cardinality({q \in Procs : pc[q] = "create_client_checked"})
PendingPhones(q) ==
    IF pc[q] \in {"create_client_checked", "create_client_flushed"} THEN Len(txn[q].client_in.phones)
    ELSE IF pc[q] = "add_phone_checked" THEN 1 ELSE 0
RECURSIVE SumPending(_)
SumPending(S) ==
    IF S = {} THEN 0
    ELSE LET q == CHOOSE x \in S : TRUE IN PendingPhones(q) + SumPending(S \ {q})

\* ---------------------------------------------------------------- dossier
\* crud._agent_to_dict
AgentToDict(aid, row) == [agent_id |-> aid] @@ row

\* The agent summary of crud._client_to_dict.
AgentSummary(aid, row) ==
    [ agent_id |-> aid, external_id |-> row.external_id, last_name |-> row.last_name,
      first_name |-> row.first_name, middle_name |-> row.middle_name ]

\* crud._client_to_dict on a loaded Client: its own columns, the agent summary
\* (None when there is no agent row), the status / stage summaries (None when
\* the lookup row is missing) and the three owned collections as loaded.
ClientToDict(cid, row, agentRows, phoneRows, passportRows, snilsRows) ==
    [ client_id |-> cid,
      row |-> row,
      agent |-> IF row.agent_id \in DOMAIN agentRows
                THEN AgentSummary(row.agent_id, agentRows[row.agent_id]) ELSE [none |-> TRUE],
      status |-> IF row.status_code # "" /\ row.status_code \in StatusCodes
                 THEN [status_code |-> GetStatus(row.status_code).status_code,
                       description |-> GetStatus(row.status_code).description]
                 ELSE [none |-> TRUE],
      stage |-> IF row.current_stage # "" /\ row.current_stage \in StageCodes
                THEN [stage_code |-> GetStage(row.current_stage).stage_code,
                      description |-> GetStage(row.current_stage).description]
                ELSE [none |-> TRUE],
      phones |-> [k \in OwnedBy(phoneRows, cid) |-> phoneRows[k]],
      passports |-> [k \in OwnedBy(passportRows, cid) |->
                        [f \in DOMAIN passportRows[k] \ {"birth_date", "department_code"} |->
                            passportRows[k][f]]],
      snils |-> [k \in OwnedBy(snilsRows, cid) |-> snilsRows[k]] ]

\* ---------------------------------------------------------------- _client_to_dict, ordered
\* The orders in which a SELECT without ORDER BY may return the rows S.
Orderings(S) ==
    {o \in [1..Cardinality(S) -> S] : \A x \in S : \E i \in DOMAIN o : o[i] = x}

\* ORDER BY the integer key, ascending.
Ascending(S) == CHOOSE o \in Orderings(S) : \A i, j \in DOMAIN o : i < j => o[i] < o[j]

\* The three lists of a dossier in the order in which the rows were iterated.
Listed(dossier, phoneOrder, passportOrder, snilsOrder) ==
    [dossier EXCEPT
        !.phones = [i \in DOMAIN phoneOrder |->
                       [phone_id |-> phoneOrder[i], entry |-> dossier.phones[phoneOrder[i]]]],
        !.passports = [i \in DOMAIN passportOrder |->
                          [passport_id |-> passportOrder[i],
                           entry |-> dossier.passports[passportOrder[i]]]],
        !.snils = [i \in DOMAIN snilsOrder |->
                      [snils_id |-> snilsOrder[i], entry |-> dossier.snils[snilsOrder[i]]]]]

\* _client_to_dict on one Client, once over relations loaded together with it
\* (client.phones, client.passports, client.snils as the relationship loader
\* returned them, client.agent) and once over its fallback queries (phones
\* ORDER BY phone_id, passports and snils without ORDER BY, db.get of the
\* agent).  Both outcomes are kept side by side.
ClientToDictPaths(p, cid) ==
    /\ pc[p] = "idle"
    /\ cid \in DOMAIN clients
    /\ LET dossier == ClientToDict(cid, clients[cid], agents, phones, passports, snils)
           ph == OwnedBy(phones, cid)
           ps == OwnedBy(passports, cid)
           sn == OwnedBy(snils, cid)
       IN \E po \in Orderings(ph) : \E pso1, pso2 \in Orderings(ps) : \E so1, so2 \in Orderings(sn) :
            Finish(p, [op |-> "client_to_dict", kind |-> "ok",
                       loaded |-> Listed(dossier, po, pso1, so1),
                       fallback |-> Listed(dossier, Ascending(ph), pso2, so2)])
    /\ UNCHANGED <<now, store, seqs, hist>>

\* ---------------------------------------------------------------- lookup tables
\* (variant) STATUS has no primary key: the INSERT is never refused.
CreateStatusNoKey(p, status_in) ==
    /\ pc[p] = "idle"
    /\ statuses' = statuses \cup {[status_code |-> status_in.status_code,
                                   description |-> status_in.description]}
    /\ Finish(p, [op |-> "create_status", kind |-> "ok", code |-> status_in.status_code])
    /\ UNCHANGED <<now, agents, clients, phones, passports, snils, stages, seqs, hist>>

\* create_status: db.add(status); db.commit().  The INSERT is refused by the
\* primary key when the code is taken (and by NOT NULL on description): the
\* handler rolls back and re-raises the IntegrityError.
CreateStatus(p, status_in) ==
    /\ pc[p] = "idle"
    /\ IF status_in.status_code \in StatusCodes \/ status_in.description = NULL
       THEN /\ Finish(p, [op |-> "create_status", kind |-> "integrity_error",
                          code |-> status_in.status_code])
            /\ UNCHANGED statuses
       ELSE /\ statuses' = statuses \cup {[status_code |-> status_in.status_code,
                                           description |-> status_in.description]}
            /\ Finish(p, [op |-> "create_status", kind |-> "ok", code |-> status_in.status_code])
    /\ UNCHANGED <<now, agents, clients, phones, passports, snils, stages, seqs, hist>>

\* (variant) create_stage merges: a code that is taken gets the new description.
CreateStageReplace(p, stage_in) ==
    /\ pc[p] = "idle"
    /\ stages' = {r \in stages : r.stage_code # stage_in.stage_code}
                    \cup {[stage_code |-> stage_in.stage_code,
                           description |-> stage_in.description]}
    /\ Finish(p, [op |-> "create_stage", kind |-> "ok", code |-> stage_in.stage_code])
    /\ UNCHANGED <<now, agents, clients, phones, passports, snils, statuses, seqs, hist>>

\* create_stage: the same over STAGE.
CreateStage(p, stage_in) ==
    /\ pc[p] = "idle"
    /\ IF stage_in.stage_code \in StageCodes \/ stage_in.description = NULL
       THEN /\ Finish(p, [op |-> "create_stage", kind |-> "integrity_error",
                          code |-> stage_in.stage_code])
            /\ UNCHANGED stages
       ELSE /\ stages' = stages \cup {[stage_code |-> stage_in.stage_code,
                                       description |-> stage_in.description]}
            /\ Finish(p, [op |-> "create_stage", kind |-> "ok", code |-> stage_in.stage_code])
    /\ UNCHANGED <<now, agents, clients, phones, passports, snils, statuses, seqs, hist>>

\* ---------------------------------------------------------------- create_agent
\* (variant) the external id is computed by the application as max + 1 over
\* the rows it can see, instead of drawn from the sequence.
CreateAgentFlushReadMax(p, agent_in) ==
    /\ pc[p] = "idle"
    /\ agent_external_id_seq < MaxAgents
    /\ LET ext == MaxOf({agents[a].external_id : a \in DOMAIN agents}) + 1
           aid == uuids.agent + 1
           row == AgentRow(agent_in, ext)
       IN /\ agent_external_id_seq' = agent_external_id_seq + 1
          /\ uuids' = [uuids EXCEPT !.agent = aid]
          /\ hist' = [hist EXCEPT !.agentIssued = Append(@, ext)]
          /\ IF AgentRowOK(agents, aid, row)
             THEN Goto(p, "create_agent_flushed",
                       [op |-> "create_agent", agent_in |-> agent_in, agent_id |-> aid,
                        row |-> row])
             ELSE Finish(p, [op |-> "create_agent", kind |-> "integrity_error"])
    /\ UNCHANGED <<now, store, client_external_id_seq, phone_id_seq>>

\* db.add(agent); db.flush(): the INSERT draws the uuid and nextval(), and the
\* row stays private to the transaction.  An IntegrityError rolls back.
CreateAgentFlush(p, agent_in) ==
    /\ pc[p] = "idle"
    /\ agent_external_id_seq < MaxAgents
    /\ LET ext == NextVal(agent_external_id_seq)
           aid == uuids.agent + 1
           row == AgentRow(agent_in, ext)
       IN /\ agent_external_id_seq' = ext
          /\ uuids' = [uuids EXCEPT !.agent = aid]
          /\ hist' = [hist EXCEPT !.agentIssued = Append(@, ext)]
          /\ IF AgentRowOK(agents, aid, row)
             THEN Goto(p, "create_agent_flushed",
                       [op |-> "create_agent", agent_in |-> agent_in, agent_id |-> aid,
                        row |-> row])
             ELSE Finish(p, [op |-> "create_agent", kind |-> "integrity_error"])
    /\ UNCHANGED <<now, store, client_external_id_seq, phone_id_seq>>

\* db.commit(); db.refresh(agent); return _agent_to_dict(agent)
CreateAgentCommit(p) ==
    /\ pc[p] = "create_agent_flushed"
    /\ agents' = Put(agents, txn[p].agent_id, txn[p].row)
    /\ hist' = [hist EXCEPT !.agentCreated = Append(@, txn[p].row.external_id)]
    /\ Finish(p, [op |-> "create_agent", kind |-> "ok",
                  agent |-> AgentToDict(txn[p].agent_id, txn[p].row)])
    /\ UNCHANGED <<now, clients, phones, passports, snils, statuses, stages, seqs>>

\* ---------------------------------------------------------------- update_agent
\* agent = db.get(Agent, agent_id); None when there is no such row.
UpdateAgentGet(p, aid, payload) ==
    /\ pc[p] = "idle"
    /\ IF aid \notin DOMAIN agents
       THEN Finish(p, [op |-> "update_agent", kind |-> "not_found", target |-> aid])
       ELSE Goto(p, "update_agent_loaded",
                 [op |-> "update_agent", agent_id |-> aid, payload |-> payload,
                  loaded |-> agents[aid]])
    /\ UNCHANGED <<now, store, seqs, hist>>

\* The columns the setattr loop really changes on the loaded object: keys that
\* name an attribute (hasattr) and whose value differs from the loaded one.
Changed(payload, loaded, columns) ==
    {k \in DOMAIN payload \cap columns : payload[k] # loaded[k]}

\* (variant) a full replace: nullable text columns the payload does not name
\* are reset.
PatchedReplace(row, payload, keys) ==
    [c \in DOMAIN row |-> IF c \in keys THEN payload[c]
                          ELSE IF c \in {"notes", "middle_name"} /\ c \notin DOMAIN payload THEN NULL
                          ELSE row[c]]

\* UPDATE ... SET <changed columns> applied to the row as it is now.
Patched(row, payload, keys) ==
    [c \in DOMAIN row |-> IF c \in keys THEN payload[c] ELSE row[c]]

\* setattr loop; db.commit() flushes the UPDATE (none when nothing changed);
\* db.refresh(agent); any exception rolls back.
UpdateAgentCommit(p) ==
    /\ pc[p] = "update_agent_loaded"
    /\ "external_id" \in DOMAIN txn[p].payload
         => ~AgentExternalIdLocked(p, txn[p].payload.external_id)
    /\ LET aid == txn[p].agent_id
           keys == Changed(txn[p].payload, txn[p].loaded, AgentColumns)
       IN IF aid \notin DOMAIN agents
          THEN \* the row went away: StaleDataError on UPDATE, or refresh fails
               /\ Finish(p, [op |-> "update_agent", kind |-> "error"])
               /\ UNCHANGED agents
          ELSE LET row == Patched(agents[aid], txn[p].payload, keys)
               IN IF AgentRowOK(agents, aid, row)
                  THEN /\ agents' = Put(agents, aid, row)
                       /\ Finish(p, [op |-> "update_agent", kind |-> "ok",
                                     payload |-> txn[p].payload,
                                     agent |-> AgentToDict(aid, row)])
                  ELSE /\ Finish(p, [op |-> "update_agent", kind |-> "integrity_error"])
                       /\ UNCHANGED agents
    /\ UNCHANGED <<now, clients, phones, passports, snils, statuses, stages, seqs, hist>>

\* ---------------------------------------------------------------- delete_agent
\* agent = db.get(Agent, agent_id); False when there is no such row.
DeleteAgentGet(p, aid) ==
    /\ pc[p] = "idle"
    /\ IF aid \notin DOMAIN agents
       THEN Finish(p, [op |-> "delete_agent", kind |-> "not_found", target |-> aid])
       ELSE Goto(p, "delete_agent_loaded", [op |-> "delete_agent", agent_id |-> aid])
    /\ UNCHANGED <<now, store, seqs, hist>>

\* (variant) the dependents are not counted before the delete.
DeleteAgentCountSkipped(p) ==
    /\ pc[p] = "delete_agent_loaded"
    /\ Goto(p, "delete_agent_counted", txn[p])
    /\ UNCHANGED <<now, store, seqs, hist>>

\* (variant) the count has no WHERE clause: any client blocks any agent.
DeleteAgentCountAll(p) ==
    /\ pc[p] = "delete_agent_loaded"
    /\ IF DOMAIN clients # {}
       THEN Finish(p, [op |-> "delete_agent", kind |-> "conflict", agent_id |-> txn[p].agent_id])
       ELSE Goto(p, "delete_agent_counted", txn[p])
    /\ UNCHANGED <<now, store, seqs, hist>>

\* SELECT count(*) FROM CLIENT WHERE agent_id = :id; ValueError when > 0.
DeleteAgentCount(p) ==
    /\ pc[p] = "delete_agent_loaded"
    /\ LET cnt == Cardinality({c \in DOMAIN clients : clients[c].agent_id = txn[p].agent_id})
       IN IF cnt > 0
          THEN Finish(p, [op |-> "delete_agent", kind |-> "conflict", agent_id |-> txn[p].agent_id])
          ELSE Goto(p, "delete_agent_counted", txn[p])
    /\ UNCHANGED <<now, store, seqs, hist>>

\* db.delete(agent); db.commit(): the DELETE waits for open transactions that
\* reference the row, is refused (IntegrityError, rollback) when a CLIENT row
\* references it, and matches nothing when the row is already gone.
DeleteAgentCommit(p) ==
    /\ pc[p] = "delete_agent_counted"
    /\ ~AgentLocked(txn[p].agent_id)
    /\ IF AgentReferenced(txn[p].agent_id)
       THEN /\ Finish(p, [op |-> "delete_agent", kind |-> "integrity_error",
                          agent_id |-> txn[p].agent_id])
            /\ UNCHANGED agents
       ELSE /\ agents' = Drop(agents, {txn[p].agent_id})
            /\ Finish(p, [op |-> "delete_agent", kind |-> "ok", agent_id |-> txn[p].agent_id])
    /\ UNCHANGED <<now, clients, phones, passports, snils, statuses, stages, seqs, hist>>

\* ---------------------------------------------------------------- create_client
\* (variant) the agent is not looked up before the insert.
CreateClientUnchecked(p, client_in) ==
    /\ pc[p] = "idle"
    /\ client_external_id_seq + PendingClients < MaxClients
    /\ phone_id_seq + SumPending(Procs) + Len(client_in.phones) <= MaxPhones
    /\ Goto(p, "create_client_checked",
            [op |-> "create_client", client_in |-> client_in, started |-> now])
    /\ UNCHANGED <<now, store, seqs, hist>>

\* agent_exists = db.get(Agent, client_in.agent_id); ValueError when missing.
CreateClientCheckAgent(p, client_in) ==
    /\ pc[p] = "idle"
    /\ client_external_id_seq + PendingClients < MaxClients
    /\ phone_id_seq + SumPending(Procs) + Len(client_in.phones) <= MaxPhones
    /\ IF client_in.agent_id \notin DOMAIN agents
       THEN Finish(p, [op |-> "create_client", kind |-> "reference_not_found",
                       agent_id |-> client_in.agent_id])
       ELSE Goto(p, "create_client_checked",
                 [op |-> "create_client", client_in |-> client_in, started |-> now])
    /\ UNCHANGED <<now, store, seqs, hist>>

\* (variant) the client row is committed on its own, before the phones.
CreateClientFlushCommitted(p) ==
    /\ pc[p] = "create_client_checked"
    /\ LET ext == NextVal(client_external_id_seq)
           cid == uuids.client + 1
           row == ClientRow(txn[p].client_in, ext, txn[p].started)
       IN /\ client_external_id_seq' = ext
          /\ uuids' = [uuids EXCEPT !.client = cid]
          /\ hist' = [hist EXCEPT !.clientIssued = Append(@, ext)]
          /\ IF ClientRowOK(cid, row)
             THEN /\ Goto(p, "create_client_flushed",
                          [txn[p] EXCEPT !.op = "create_client"] @@ [client_id |-> cid, row |-> row])
                  /\ clients' = Put(clients, cid, row)
             ELSE /\ Finish(p, [op |-> "create_client", kind |-> "integrity_error"])
                  /\ UNCHANGED clients
    /\ UNCHANGED <<now, agents, phones, passports, snils, statuses, stages,
                   agent_external_id_seq, phone_id_seq>>

\* (variant) the sequence is transactional: a rolled-back insert gives its
\* value back.
CreateClientFlushGivesBack(p) ==
    /\ pc[p] = "create_client_checked"
    /\ LET ext == NextVal(client_external_id_seq)
           cid == uuids.client + 1
           row == ClientRow(txn[p].client_in, ext, txn[p].started)
       IN /\ uuids' = [uuids EXCEPT !.client = cid]
          /\ hist' = [hist EXCEPT !.clientIssued = Append(@, ext)]
          /\ IF ClientRowOK(cid, row)
             THEN /\ client_external_id_seq' = ext
                  /\ Goto(p, "create_client_flushed",
                          [txn[p] EXCEPT !.op = "create_client"] @@ [client_id |-> cid, row |-> row])
             ELSE /\ UNCHANGED client_external_id_seq
                  /\ Finish(p, [op |-> "create_client", kind |-> "integrity_error"])
    /\ UNCHANGED <<now, store, agent_external_id_seq, phone_id_seq>>

\* db.add(client); db.flush(): the INSERT draws the uuid and nextval() and
\* checks the row; IntegrityError -> rollback and re-raise.  The Phone objects
\* are added to the session and wait for the commit.
CreateClientFlush(p) ==
    /\ pc[p] = "create_client_checked"
    /\ LET ext == NextVal(client_external_id_seq)
           cid == uuids.client + 1
           row == ClientRow(txn[p].client_in, ext, txn[p].started)
       IN /\ client_external_id_seq' = ext
          /\ uuids' = [uuids EXCEPT !.client = cid]
          /\ hist' = [hist EXCEPT !.clientIssued = Append(@, ext)]
          /\ IF ClientRowOK(cid, row)
             THEN Goto(p, "create_client_flushed",
                       [txn[p] EXCEPT !.op = "create_client"] @@ [client_id |-> cid, row |-> row])
             ELSE Finish(p, [op |-> "create_client", kind |-> "integrity_error"])
    /\ UNCHANGED <<now, store, agent_external_id_seq, phone_id_seq>>

\* The PHONE rows of the pending Phone objects, numbered by the serial.
NewPhones(cid, numbers, from) ==
    [k \in (from + 1)..(from + Len(numbers)) |-> [client_id |-> cid, number |-> numbers[k - from]]]

\* db.commit(): the phone INSERTs are flushed and everything the transaction
\* wrote becomes visible at once; db.refresh(client); return _client_to_dict.
CreateClientCommit(p) ==
    /\ pc[p] = "create_client_flushed"
    /\ LET cid == txn[p].client_id
           new == NewPhones(cid, txn[p].client_in.phones, phone_id_seq)
       IN /\ clients' = Put(clients, cid, txn[p].row)
          /\ phones' = new @@ phones
          /\ phone_id_seq' = phone_id_seq + Len(txn[p].client_in.phones)
          /\ hist' = [hist EXCEPT !.clientCreated = Append(@, txn[p].row.external_id),
                                  !.createdWith = Put(@, cid, DOMAIN new)]
          /\ Finish(p, [op |-> "create_client", kind |-> "ok",
                        dossier |-> ClientToDict(cid, txn[p].row, agents, new @@ phones,
                                                 passports, snils)])
    /\ UNCHANGED <<now, agents, passports, snils, statuses, stages,
                   agent_external_id_seq, client_external_id_seq, uuids>>

\* ---------------------------------------------------------------- get_client
\* SELECT ... FROM CLIENT WHERE client_id = :id; None when there is no row.
\* (atSelect keeps, for the properties only, the dossier the store held when
\* this first statement ran.)
GetClientSelect(p, cid) ==
    /\ pc[p] = "idle"
    /\ IF cid \notin DOMAIN clients
       THEN Finish(p, [op |-> "get_client", kind |-> "not_found",
                       afterDelete |-> cid \in hist.deletedClients])
       ELSE Goto(p, "get_client_selected",
                 [op |-> "get_client", client_id |-> cid, row |-> clients[cid],
                  afterDelete |-> cid \in hist.deletedClients,
                  atSelect |-> ClientToDict(cid, clients[cid], agents, phones,
                                            passports, snils)])
    /\ UNCHANGED <<now, store, seqs, hist>>

\* selectinload(Client.phones): SELECT ... FROM PHONE WHERE client_id IN (:id)
GetClientLoadPhones(p) ==
    /\ pc[p] = "get_client_selected"
    /\ Goto(p, "get_client_phones",
            txn[p] @@ [phones |-> [k \in OwnedBy(phones, txn[p].client_id) |-> phones[k]]])
    /\ UNCHANGED <<now, store, seqs, hist>>

\* selectinload of agent, passports, snils; then _client_to_dict, which reads
\* the STATUS and STAGE rows.
GetClientLoadRest(p) ==
    /\ pc[p] = "get_client_phones"
    /\ Finish(p, [op |-> "get_client", kind |-> "ok", afterDelete |-> txn[p].afterDelete,
                  dossier |-> ClientToDict(txn[p].client_id, txn[p].row, agents,
                                           txn[p].phones, passports, snils)])
    /\ UNCHANGED <<now, store, seqs, hist>>

\* ---------------------------------------------------------------- list_clients
\* The characters of the texts that occur as names and as search strings.
Chars(t) ==
    CASE t = "Doe" -> <<"D", "o", "e">>
      [] t = "Roe" -> <<"R", "o", "e">>
      [] t = "John" -> <<"J", "o", "h", "n">>
      [] t = "Ann" -> <<"A", "n", "n">>
      [] t = "doe" -> <<"d", "o", "e">>
      [] t = "OE" -> <<"O", "E">>
      [] t = "oh" -> <<"o", "h">>
      [] t = "xyz" -> <<"x", "y", "z">>
      [] t = "_" -> <<"_">>
      [] t = "o%n" -> <<"o", "%", "n">>
      [] OTHER -> << >>
LowerChar(c) ==
    CASE c = "D" -> "d" [] c = "R" -> "r" [] c = "J" -> "j" [] c = "A" -> "a"
      [] c = "O" -> "o" [] c = "E" -> "e" [] OTHER -> c
Lower(cs) == [i \in DOMAIN cs |-> LowerChar(cs[i])]
Contains(cs, sub) ==
    \E i \in 0..(Len(cs) - Len(sub)) : \A j \in 1..Len(sub) : cs[i + j] = sub[j]
\* text LIKE pattern: % stands for any run of characters, _ for any one.
RECURSIVE LikeMatch(_, _)
LikeMatch(pattern, cs) ==
    IF pattern = << >> THEN cs = << >>
    ELSE IF Head(pattern) = "%"
         THEN LikeMatch(Tail(pattern), cs) \/ (cs # << >> /\ LikeMatch(pattern, Tail(cs)))
         ELSE /\ cs # << >>
              /\ Head(pattern) = "_" \/ Head(pattern) = Head(cs)
              /\ LikeMatch(Tail(pattern), Tail(cs))

\* column.ilike(f"%{q}%"): q goes into the pattern as it is, both sides are
\* compared in lower case, and a NULL column matches nothing.
ILike(text, q) ==
    text # NULL /\ LikeMatch(<<"%">> \o Lower(Chars(q)) \o <<"%">>, Lower(Chars(text)))

\* The WHERE clause: each filter that is supplied (truthy) must hold.
Matches(row, args) ==
    /\ (args.q # NULL /\ args.q # "")
          => \/ ILike(row.first_name, args.q)
             \/ ILike(row.last_name, args.q)
             \/ ILike(row.middle_name, args.q)
    /\ (args.status # NULL /\ args.status # "") => row.status_code = args.status
    /\ args.agent_id # NoId => row.agent_id = args.agent_id
    /\ (args.current_stage # NULL /\ args.current_stage # "")
          => row.current_stage = args.current_stage

\* ORDER BY external_id: the rows with the given ids (a subset of the ids
\* issued so far), sorted by the unique external_id column.
OrderByExternalId(ids) ==
    SortSeq(SelectSeq([c \in 1..uuids.client |-> c], LAMBDA c : c \in ids),
            LAMBDA c, d : clients[c].external_id < clients[d].external_id)

\* (variant) the OFFSET clause is missing: every page starts at the first row.
PageWithoutOffset(seq, skip, limit) ==
    SubSeq(seq, 1, IF limit < Len(seq) THEN limit ELSE Len(seq))

\* OFFSET skip LIMIT limit
Page(seq, skip, limit) ==
    SubSeq(seq, skip + 1, IF skip + limit < Len(seq) THEN skip + limit ELSE Len(seq))

\* SELECT ... FROM CLIENT WHERE ... ORDER BY external_id OFFSET :skip LIMIT :limit
ListClientsSelect(p, args) ==
    /\ pc[p] = "idle"
    /\ LET ids == Page(OrderByExternalId({c \in DOMAIN clients : Matches(clients[c], args)}),
                       args.skip, args.limit)
       IN IF ids = << >>
          THEN Finish(p, [op |-> "list_clients", kind |-> "ok", args |-> args,
                          dossiers |-> << >>])
          ELSE Goto(p, "list_clients_selected",
                    [op |-> "list_clients", args |-> args, ids |-> ids,
                     rows |-> [i \in DOMAIN ids |-> clients[ids[i]]]])
    /\ UNCHANGED <<now, store, seqs, hist>>

\* selectinload(Client.phones): SELECT ... FROM PHONE WHERE client_id IN (...)
ListClientsLoadPhones(p) ==
    /\ pc[p] = "list_clients_selected"
    /\ Goto(p, "list_clients_phones",
            txn[p] @@ [phones |-> [k \in {x \in DOMAIN phones :
                                            phones[x].client_id \in Range(txn[p].ids)}
                                   |-> phones[k]]])
    /\ UNCHANGED <<now, store, seqs, hist>>

\* selectinload of agent, passports, snils; then _client_to_dict per client.
ListClientsLoadRest(p) ==
    /\ pc[p] = "list_clients_phones"
    /\ Finish(p, [op |-> "list_clients", kind |-> "ok", args |-> txn[p].args,
                  dossiers |-> [i \in DOMAIN txn[p].ids |->
                                  ClientToDict(txn[p].ids[i], txn[p].rows[i], agents,
                                               txn[p].phones, passports, snils)]])
    /\ UNCHANGED <<now, store, seqs, hist>>

\* read_clients (GET /clients): skip and limit are validated by
\* Query(0, ge=0) and Query(50, ge=1, le=200), a value outside the range being
\* answered with a validation error before crud.list_clients is called.
ReadClients(p, args) ==
    IF args.skip >= 0 /\ args.limit >= 1 /\ args.limit <= MaxLimit
    THEN ListClientsSelect(p, args)
    ELSE /\ pc[p] = "idle"
         /\ Finish(p, [op |-> "read_clients", kind |-> "validation_error", args |-> args])
         /\ UNCHANGED <<now, store, seqs, hist>>

\* ---------------------------------------------------------------- get_agent, get_agent_by_external, list_agents
\* agent = db.get(Agent, agent_id); None when there is no such row.
GetAgent(p, aid) ==
    /\ pc[p] = "idle"
    /\ IF aid \in DOMAIN agents
       THEN Finish(p, [op |-> "get_agent", kind |-> "ok", target |-> aid,
                       agents |-> <<AgentToDict(aid, agents[aid])>>])
       ELSE Finish(p, [op |-> "get_agent", kind |-> "not_found", target |-> aid,
                       agents |-> << >>])
    /\ UNCHANGED <<now, store, seqs, hist>>

\* SELECT ... FROM AGENT WHERE external_id = :external_id; first row or None.
GetAgentByExternal(p, ext) ==
    /\ pc[p] = "idle"
    /\ LET found == {a \in DOMAIN agents : agents[a].external_id = ext}
       IN IF found # {}
          THEN \E a \in found :
                  Finish(p, [op |-> "get_agent_by_external", kind |-> "ok", target |-> ext,
                             agents |-> <<AgentToDict(a, agents[a])>>])
          ELSE Finish(p, [op |-> "get_agent_by_external", kind |-> "not_found",
                          target |-> ext, agents |-> << >>])
    /\ UNCHANGED <<now, store, seqs, hist>>

\* The place of a name in the collation of the texts that occur as names.
Collate(t) ==
    CASE t = "" -> 0 [] t = "Ann" -> 1 [] t = "Brown" -> 2 [] t = "Doe" -> 3
      [] t = "Jane" -> 4 [] t = "John" -> 5 [] t = "Roe" -> 6 [] t = "Smith" -> 7
      [] OTHER -> 8

\* ORDER BY last_name, first_name: row a may not come after row b.
NameOrdered(a, b) ==
    \/ Collate(a.last_name) < Collate(b.last_name)
    \/ /\ Collate(a.last_name) = Collate(b.last_name)
       /\ Collate(a.first_name) <= Collate(b.first_name)

\* list_agents: WHERE the three names ilike '%q%' (when q is truthy), ORDER BY
\* last_name, first_name (rows with equal names in any order), OFFSET, LIMIT.
ListAgents(p, skip, limit, q) ==
    /\ pc[p] = "idle"
    /\ LET found == {a \in DOMAIN agents :
                        (q # NULL /\ q # "")
                            => \/ ILike(agents[a].first_name, q)
                               \/ ILike(agents[a].last_name, q)
                               \/ ILike(agents[a].middle_name, q)}
       IN \E o \in Orderings(found) :
            /\ \A i, j \in DOMAIN o : i < j => NameOrdered(agents[o[i]], agents[o[j]])
            /\ Finish(p, [op |-> "list_agents", kind |-> "ok", target |-> NoId,
                          agents |-> [i \in DOMAIN Page(o, skip, limit) |->
                                        AgentToDict(Page(o, skip, limit)[i],
                                                    agents[Page(o, skip, limit)[i]])]])
    /\ UNCHANGED <<now, store, seqs, hist>>

\* ---------------------------------------------------------------- update_client
\* A value of ClientUpdate.phones as patch_client's model_dump hands it on:
\* None, or a list of {"number": ...} dicts.
PhonesNone == [py |-> "None"]
PhonesList(numbers) == [py |-> "list", items |-> numbers]

\* setattr(client, "phones", v) on the relationship collection: None is not
\* list-like (TypeError) and a dict is not a mapped Phone (AttributeError);
\* only the empty list can be assigned.
PhonesAssignable(payload) ==
    "phones" \in DOMAIN payload
        => payload.phones.py = "list" /\ payload.phones.items = << >>

\* client = db.get(Client, client_id); None when there is no such row.  The
\* setattr loop runs before the try block: an assignment that raises ends the
\* call with nothing flushed.  Assigning the phones collection loads the old
\* one, whose members become orphans.
UpdateClientGet(p, cid, payload) ==
    /\ pc[p] = "idle"
    /\ IF cid \notin DOMAIN clients
       THEN Finish(p, [op |-> "update_client", kind |-> "not_found", target |-> cid])
       ELSE IF ~PhonesAssignable(payload)
       THEN Finish(p, [op |-> "update_client", kind |-> "error", target |-> cid])
       ELSE IF "phones" \in DOMAIN payload
       THEN Goto(p, "update_client_loaded",
                 [op |-> "update_client", client_id |-> cid, payload |-> payload,
                  loaded |-> clients[cid], started |-> now,
                  orphans |-> OwnedBy(phones, cid)])
       ELSE Goto(p, "update_client_loaded",
                 [op |-> "update_client", client_id |-> cid, payload |-> payload,
                  loaded |-> clients[cid], started |-> now])
    /\ UNCHANGED <<now, store, seqs, hist>>

\* Client.phones is cascade="all, delete-orphan": the flush deletes, by
\* primary key, the Phone rows taken out of the collection.
DeleteOrphans(tbl, t) ==
    IF "orphans" \in DOMAIN t THEN Drop(tbl, t.orphans) ELSE tbl

\* (variant) updated_at is set by every update_client, changed columns or not.
OnUpdateAlways(row, keys, at) ==
    IF "updated_at" \in keys THEN row ELSE [row EXCEPT !.updated_at = at]

\* Client.updated_at onupdate=func.now(): an UPDATE statement that does not
\* set updated_at itself sets it to now(), the start of the transaction.  No
\* changed column, no UPDATE statement.
OnUpdate(row, keys, at) ==
    IF keys = {} \/ "updated_at" \in keys THEN row ELSE [row EXCEPT !.updated_at = at]

\* (variant) every assignment is committed on its own and a failure is not
\* rolled back: the notes written before the refused column stay.
UpdateClientCommitNoRollback(p) ==
    /\ pc[p] = "update_client_loaded"
    /\ LET cid == txn[p].client_id
           keys == Changed(txn[p].payload, txn[p].loaded, ClientColumns)
       IN IF cid \notin DOMAIN clients
          THEN /\ Finish(p, [op |-> "update_client", kind |-> "error"])
               /\ UNCHANGED clients
          ELSE LET row == OnUpdate(Patched(clients[cid], txn[p].payload, keys), keys,
                                   txn[p].started)
               IN IF ClientRowOK(cid, row)
                  THEN /\ clients' = Put(clients, cid, row)
                       /\ Finish(p, [op |-> "update_client", kind |-> "ok",
                                     payload |-> txn[p].payload,
                                     dossier |-> ClientToDict(cid, row, agents, phones,
                                                              passports, snils)])
                  ELSE /\ Finish(p, [op |-> "update_client", kind |-> "integrity_error"])
                       /\ clients' = Put(clients, cid,
                                         Patched(clients[cid], txn[p].payload, keys \cap {"notes"}))
    /\ UNCHANGED <<now, agents, phones, passports, snils, statuses, stages, seqs, hist>>

\* (variant) a workflow is enforced: a Client whose status is DONE keeps it.
UpdateClientCommitWorkflow(p) ==
    /\ pc[p] = "update_client_loaded"
    /\ LET cid == txn[p].client_id
           keys == Changed(txn[p].payload, txn[p].loaded, ClientColumns)
       IN IF cid \notin DOMAIN clients
          THEN /\ Finish(p, [op |-> "update_client", kind |-> "error"])
               /\ UNCHANGED clients
          ELSE LET row == OnUpdate(Patched(clients[cid], txn[p].payload, keys), keys,
                                   txn[p].started)
               IN IF ClientRowOK(cid, row)
                     /\ (clients[cid].status_code = "DONE" => row.status_code = "DONE")
                  THEN /\ clients' = Put(clients, cid, row)
                       /\ Finish(p, [op |-> "update_client", kind |-> "ok",
                                     payload |-> txn[p].payload,
                                     dossier |-> ClientToDict(cid, row, agents, phones,
                                                              passports, snils)])
                  ELSE /\ Finish(p, [op |-> "update_client", kind |-> "integrity_error"])
                       /\ UNCHANGED clients
    /\ UNCHANGED <<now, agents, phones, passports, snils, statuses, stages, seqs, hist>>

\* setattr loop; db.commit() flushes the UPDATE (none when nothing changed)
\* and the DELETEs of the orphaned phones; db.refresh(client); return
\* _client_to_dict; any exception rolls back.
UpdateClientCommit(p) ==
    /\ pc[p] = "update_client_loaded"
    /\ "external_id" \in DOMAIN txn[p].payload
         => ~ClientExternalIdLocked(p, txn[p].payload.external_id)
    /\ LET cid == txn[p].client_id
           keys == Changed(txn[p].payload, txn[p].loaded, ClientColumns)
       IN IF cid \notin DOMAIN clients
          THEN \* the row went away: StaleDataError on UPDATE, or refresh fails
               /\ Finish(p, [op |-> "update_client", kind |-> "error"])
               /\ UNCHANGED <<clients, phones>>
          ELSE LET row == OnUpdate(Patched(clients[cid], txn[p].payload, keys), keys,
                                   txn[p].started)
                   kept == DeleteOrphans(phones, txn[p])
               IN IF ClientRowOK(cid, row)
                  THEN /\ clients' = Put(clients, cid, row)
                       /\ phones' = kept
                       /\ Finish(p, [op |-> "update_client", kind |-> "ok",
                                     payload |-> txn[p].payload,
                                     dossier |-> ClientToDict(cid, row, agents, kept,
                                                              passports, snils)])
                  ELSE /\ Finish(p, [op |-> "update_client", kind |-> "integrity_error"])
                       /\ UNCHANGED <<clients, phones>>
    /\ UNCHANGED <<now, agents, passports, snils, statuses, stages, seqs, hist>>

\* ---------------------------------------------------------------- delete_client
\* client = db.get(Client, client_id); False when there is no such row.
DeleteClientGet(p, cid) ==
    /\ pc[p] = "idle"
    /\ IF cid \notin DOMAIN clients
       THEN Finish(p, [op |-> "delete_client", kind |-> "not_found", target |-> cid])
       ELSE Goto(p, "delete_client_loaded", [op |-> "delete_client", client_id |-> cid])
    /\ UNCHANGED <<now, store, seqs, hist>>

\* db.delete(client); db.commit(): DELETE FROM CLIENT WHERE client_id = :id;
\* the relationships are passive_deletes, so the owned rows go by the foreign
\* keys' ON DELETE CASCADE.  A row already gone matches nothing.
DeleteClientCommit(p) ==
    /\ pc[p] = "delete_client_loaded"
    /\ LET cid == txn[p].client_id
       IN /\ clients' = Drop(clients, {cid})
          /\ phones' = CascadeDelete(phones, cid)
          /\ passports' = CascadeDelete(passports, cid)
          /\ snils' = CascadeDelete(snils, cid)
          /\ hist' = [hist EXCEPT !.deletedClients = @ \cup {cid},
                                  !.cascaded = IF cid \in DOMAIN clients
                                               THEN Put(@, cid, [phones |-> OwnedBy(phones, cid),
                                                                 passports |-> OwnedBy(passports, cid),
                                                                 snils |-> OwnedBy(snils, cid)])
                                               ELSE @]
    /\ Finish(p, [op |-> "delete_client", kind |-> "ok", client_id |-> txn[p].client_id])
    /\ UNCHANGED <<now, agents, statuses, stages, seqs>>

\* ---------------------------------------------------------------- owned records
\* (variant) the owner is not looked up before the insert.
AddPhoneUnchecked(p, cid, number) ==
    /\ pc[p] = "idle"
    /\ phone_id_seq + SumPending(Procs) < MaxPhones
    /\ Goto(p, "add_phone_checked", [op |-> "add_phone", client_id |-> cid, number |-> number])
    /\ UNCHANGED <<now, store, seqs, hist>>

\* client = db.get(Client, client_id); ValueError("Client not found").
AddPhoneCheck(p, cid, number) ==
    /\ pc[p] = "idle"
    /\ phone_id_seq + SumPending(Procs) < MaxPhones
    /\ IF cid \notin DOMAIN clients
       THEN Finish(p, [op |-> "add_phone", kind |-> "reference_not_found", target |-> cid])
       ELSE Goto(p, "add_phone_checked",
                 [op |-> "add_phone", client_id |-> cid, number |-> number])
    /\ UNCHANGED <<now, store, seqs, hist>>

\* (variant) client_id is a plain column: no foreign key is checked.
OwnerUnchecked(cid) == TRUE

\* The row satisfies ForeignKey("CLIENT.client_id").
OwnerExists(cid) == cid \in DOMAIN clients

\* db.add(phone); db.commit(): the INSERT draws the serial; a missing owner
\* is an IntegrityError and rolls back.
AddPhoneCommit(p) ==
    /\ pc[p] = "add_phone_checked"
    /\ phone_id_seq' = phone_id_seq + 1
    /\ IF OwnerExists(txn[p].client_id)
       THEN /\ phones' = Put(phones, phone_id_seq + 1,
                             [client_id |-> txn[p].client_id, number |-> txn[p].number])
            /\ Finish(p, [op |-> "add_phone", kind |-> "ok", phone_id |-> phone_id_seq + 1])
       ELSE /\ Finish(p, [op |-> "add_phone", kind |-> "integrity_error"])
            /\ UNCHANGED phones
    /\ UNCHANGED <<now, agents, clients, passports, snils, statuses, stages,
                   agent_external_id_seq, client_external_id_seq, uuids, hist>>

\* models.Passport(client_id=client_id, **passport_in.model_dump()); version
\* takes its column default.
PassportRow(cid, passport_in) == [client_id |-> cid, version |-> 1] @@ passport_in

CreatePassportCheck(p, cid, passport_in) ==
    /\ pc[p] = "idle"
    /\ uuids.passport + Cardinality({q \in Procs : pc[q] = "create_passport_checked"}) < MaxDocs
    /\ IF cid \notin DOMAIN clients
       THEN Finish(p, [op |-> "create_passport", kind |-> "reference_not_found", target |-> cid])
       ELSE Goto(p, "create_passport_checked",
                 [op |-> "create_passport", client_id |-> cid, passport_in |-> passport_in])
    /\ UNCHANGED <<now, store, seqs, hist>>

CreatePassportCommit(p) ==
    /\ pc[p] = "create_passport_checked"
    /\ uuids' = [uuids EXCEPT !.passport = @ + 1]
    /\ IF OwnerExists(txn[p].client_id)
       THEN /\ passports' = Put(passports, uuids.passport + 1,
                                PassportRow(txn[p].client_id, txn[p].passport_in))
            /\ Finish(p, [op |-> "create_passport", kind |-> "ok",
                          passport_id |-> uuids.passport + 1])
       ELSE /\ Finish(p, [op |-> "create_passport", kind |-> "integrity_error"])
            /\ UNCHANGED passports
    /\ UNCHANGED <<now, agents, clients, phones, snils, statuses, stages,
                   agent_external_id_seq, client_external_id_seq, phone_id_seq, hist>>

\* models.Snils(client_id=client_id, **snils_in.model_dump())
SnilsRow(cid, snils_in) == [client_id |-> cid, version |-> 1] @@ snils_in

CreateSnilsCheck(p, cid, snils_in) ==
    /\ pc[p] = "idle"
    /\ uuids.snils + Cardinality({q \in Procs : pc[q] = "create_snils_checked"}) < MaxDocs
    /\ IF cid \notin DOMAIN clients
       THEN Finish(p, [op |-> "create_snils", kind |-> "reference_not_found", target |-> cid])
       ELSE Goto(p, "create_snils_checked",
                 [op |-> "create_snils", client_id |-> cid, snils_in |-> snils_in])
    /\ UNCHANGED <<now, store, seqs, hist>>

CreateSnilsCommit(p) ==
    /\ pc[p] = "create_snils_checked"
    /\ uuids' = [uuids EXCEPT !.snils = @ + 1]
    /\ IF OwnerExists(txn[p].client_id)
       THEN /\ snils' = Put(snils, uuids.snils + 1, SnilsRow(txn[p].client_id, txn[p].snils_in))
            /\ Finish(p, [op |-> "create_snils", kind |-> "ok", snils_id |-> uuids.snils + 1])
       ELSE /\ Finish(p, [op |-> "create_snils", kind |-> "integrity_error"])
            /\ UNCHANGED snils
    /\ UNCHANGED <<now, agents, clients, phones, passports, statuses, stages,
                   agent_external_id_seq, client_external_id_seq, phone_id_seq, hist>>

\* ---------------------------------------------------------------- delete_phone
\* (variant) the phone is not looked up before the delete.
DeletePhoneGetUnchecked(p, k) ==
    /\ pc[p] = "idle"
    /\ Goto(p, "delete_phone_loaded", [op |-> "delete_phone", phone_id |-> k])
    /\ UNCHANGED <<now, store, seqs, hist>>

\* phone = db.get(Phone, phone_id); False when there is no such row.
DeletePhoneGet(p, k) ==
    /\ pc[p] = "idle"
    /\ IF k \notin DOMAIN phones
       THEN Finish(p, [op |-> "delete_phone", kind |-> "not_found", target |-> k])
       ELSE Goto(p, "delete_phone_loaded", [op |-> "delete_phone", phone_id |-> k])
    /\ UNCHANGED <<now, store, seqs, hist>>

\* db.delete(phone); db.commit(): DELETE FROM PHONE WHERE phone_id = :id.
DeletePhoneCommit(p) ==
    /\ pc[p] = "delete_phone_loaded"
    /\ phones' = Drop(phones, {txn[p].phone_id})
    /\ Finish(p, [op |-> "delete_phone", kind |-> "ok", phone_id |-> txn[p].phone_id])
    /\ UNCHANGED <<now, agents, clients, passports, snils, statuses, stages, seqs, hist>>

\* ---------------------------------------------------------------- update_passport / update_snils
\* Columns of PASSPORT and SNILS that setattr reaches, and their nullable=False
\* text columns.
PassportColumns == {"client_id", "full_name", "birth_date", "birth_place", "series_number",
                    "issued_by", "issue_date", "department_code", "expiry_date",
                    "registration_address", "version"}
PassportNotNull == {"full_name", "birth_place", "series_number", "issued_by", "issue_date",
                    "registration_address"}
SnilsColumns == {"client_id", "number", "issued_date", "version"}
SnilsNotNull == {"number"}

\* What PASSPORT / SNILS accept: NOT NULL and ForeignKey("CLIENT.client_id").
OwnedRowOK(row, notNull) ==
    /\ \A c \in notNull : row[c] # NULL
    /\ row.client_id \in DOMAIN clients

\* passport = db.get(Passport, passport_id); None when there is no such row.
UpdatePassportGet(p, k, payload) ==
    /\ pc[p] = "idle"
    /\ IF k \notin DOMAIN passports
       THEN Finish(p, [op |-> "update_passport", kind |-> "not_found", target |-> k])
       ELSE Goto(p, "update_passport_loaded",
                 [op |-> "update_passport", passport_id |-> k, payload |-> payload,
                  loaded |-> passports[k]])
    /\ UNCHANGED <<now, store, seqs, hist>>

\* setattr for every key of the payload (a key that is no column becomes a
\* plain attribute of the object and reaches no statement); db.commit();
\* db.refresh(passport).  version keeps its value.
UpdatePassportCommit(p) ==
    /\ pc[p] = "update_passport_loaded"
    /\ LET k == txn[p].passport_id
           keys == Changed(txn[p].payload, txn[p].loaded, PassportColumns)
       IN IF k \notin DOMAIN passports
          THEN /\ Finish(p, [op |-> "update_passport", kind |-> "error"])
               /\ UNCHANGED passports
          ELSE LET row == Patched(passports[k], txn[p].payload, keys)
               IN IF OwnedRowOK(row, PassportNotNull)
                  THEN /\ passports' = Put(passports, k, row)
                       /\ Finish(p, [op |-> "update_passport", kind |-> "ok",
                                     payload |-> txn[p].payload,
                                     passport |-> [passport_id |-> k] @@ row])
                  ELSE /\ Finish(p, [op |-> "update_passport", kind |-> "integrity_error"])
                       /\ UNCHANGED passports
    /\ UNCHANGED <<now, agents, clients, phones, snils, statuses, stages, seqs, hist>>

\* snils = db.get(Snils, snils_id); None when there is no such row.
UpdateSnilsGet(p, k, payload) ==
    /\ pc[p] = "idle"
    /\ IF k \notin DOMAIN snils
       THEN Finish(p, [op |-> "update_snils", kind |-> "not_found", target |-> k])
       ELSE Goto(p, "update_snils_loaded",
                 [op |-> "update_snils", snils_id |-> k, payload |-> payload,
                  loaded |-> snils[k]])
    /\ UNCHANGED <<now, store, seqs, hist>>

\* setattr for every key of the payload; db.commit(); db.refresh(snils).
UpdateSnilsCommit(p) ==
    /\ pc[p] = "update_snils_loaded"
    /\ LET k == txn[p].snils_id
           keys == Changed(txn[p].payload, txn[p].loaded, SnilsColumns)
       IN IF k \notin DOMAIN snils
          THEN /\ Finish(p, [op |-> "update_snils", kind |-> "error"])
               /\ UNCHANGED snils
          ELSE LET row == Patched(snils[k], txn[p].payload, keys)
               IN IF OwnedRowOK(row, SnilsNotNull)
                  THEN /\ snils' = Put(snils, k, row)
                       /\ Finish(p, [op |-> "update_snils", kind |-> "ok",
                                     payload |-> txn[p].payload,
                                     snils |-> [snils_id |-> k] @@ row])
                  ELSE /\ Finish(p, [op |-> "update_snils", kind |-> "integrity_error"])
                       /\ UNCHANGED snils
    /\ UNCHANGED <<now, agents, clients, phones, passports, statuses, stages, seqs, hist>>

\* ---------------------------------------------------------------- clock
\* Time passes between two statements.
Tick ==
    /\ now < MaxTime
    /\ now' = now + 1
    /\ UNCHANGED <<store, seqs, pc, txn, result, hist>>

\* ---------------------------------------------------------------- inputs
\* AgentCreate objects that pass the schema's format checks.
AgentIn(last, first, corr) ==
    [ last_name |-> last, first_name |-> first, middle_name |-> NULL,
      legal_address |-> "A", actual_address |-> "A", inn |-> "1234567890",
      ogrnip |-> "123456789012345", account_number |-> "12345678901234567890",
      correspondent_account |-> corr, bic |-> "123456789" ]

\* ClientCreate objects: any agent id, a status code with or without a lookup
\* row, no phones or two.
ClientIn(aid, status, numbers) ==
    [ last_name |-> "Doe", first_name |-> "John", middle_name |-> NULL,
      status_code |-> status, current_stage |-> "MTZ", agent_id |-> aid,
      deadline |-> NULL, notes |-> NULL, phones |-> numbers ]
AgentIds == 1..MaxAgents
ClientIds == 1..MaxClients
ClientInputs == { ClientIn(aid, st, ph) :
                    aid \in AgentIds, st \in {"WORKING", "NO_SUCH_STATUS"},
                    ph \in {<< >>, <<"+1000", "+1001">>} }

PassportInputs ==
    { [ full_name |-> "Doe John", birth_date |-> "1990-01-01", birth_place |-> "B",
        series_number |-> "4510 123456", issued_by |-> "OVD", issue_date |-> "2010-01-01",
        department_code |-> "770-001", expiry_date |-> NULL, registration_address |-> "R" ] }
SnilsInputs == { [number |-> "112-233-445 95", issued_date |-> NULL] }

\* list_clients arguments; the defaults are skip=0, limit=50 and no filter.
ListArgs(skip, limit, q, status, aid, stage) ==
    [skip |-> skip, limit |-> limit, q |-> q, status |-> status, agent_id |-> aid,
     current_stage |-> stage]
DefaultLimit == 50

\* StatusCreate / StageCreate payloads: a seeded code and a new one, under two
\* descriptions.
StatusInputs == { [status_code |-> c, description |-> d] :
                    c \in {"WORKING", "ON_HOLD"}, d \in {"first", "second"} }
StageInputs == { [stage_code |-> c, description |-> d] :
                   c \in {"MTZ", "FITTING"}, d \in {"first", "second"} }

\* ClientCreate payloads with two phone numbers whose status and stage codes
\* are seeded or to be registered.
LookupClientInputs ==
    { [ClientIn(1, st, <<"+1000", "+1001">>) EXCEPT !.current_stage = sg] :
        st \in {"WORKING", "ON_HOLD"}, sg \in {"MTZ", "FITTING"} }

\* list_clients filters: each of q, status, agent_id and current_stage absent
\* or given, under the default page.
ListFilters ==
    { ListArgs(0, DefaultLimit, q, st, aid, sg) :
        q \in {NULL, "doe", "OE", "oh", "xyz", "_", "o%n"}, st \in {NULL, "WORKING"},
        aid \in {NoId, 1}, sg \in {NULL, "MTZ"} }

\* list_clients pages: every skip up to one past the store, short and default
\* limits, with and without the status filter.
ListPages ==
    { ListArgs(skip, limit, NULL, st, NoId, NULL) :
        skip \in 0..(MaxClients + 1), limit \in {1, 2, DefaultLimit}, st \in {NULL, "WORKING"} }

\* list_clients limits around the largest one the endpoint accepts.
ListLimits ==
    { ListArgs(skip, limit, NULL, NULL, NoId, NULL) :
        skip \in {0, 1}, limit \in {1, MaxLimit - 1, MaxLimit, MaxLimit + 1, MaxLimit + 50} }

\* ClientCreate payloads that differ in name, status, agent and stage.
ListClientInputs ==
    { ClientIn(1, "WORKING", << >>),
      [ClientIn(2, "DONE", << >>) EXCEPT !.last_name = "Roe", !.first_name = "Ann",
                                         !.current_stage = "IPRA"],
      [ClientIn(2, "WORKING", << >>) EXCEPT !.last_name = "Roe"] }

\* A partial update: a function from the supplied keys to their values.
Patch1(k, v) == [x \in {k} |-> v]
Patch2(k1, v1, k2, v2) == [x \in {k1, k2} |-> IF x = k1 THEN v1 ELSE v2]

\* update_client payloads that set the status or the stage: seeded codes, a
\* code to be registered, and a code that is never registered.
StatusPatches ==
    { Patch1("status_code", c) : c \in {"WORKING", "DONE", "ON_HOLD", "NO_SUCH_STATUS"} }
StagePatches ==
    { Patch1("current_stage", c) : c \in {"MTZ", "DONE", "FITTING", "NO_SUCH_STAGE"} }

\* Partial inputs of update_client that name the phones list.
PhonePatches ==
    { Patch1("phones", PhonesList(<< >>)),
      Patch1("phones", PhonesList(<< [number |-> "+3000"] >>)),
      Patch1("phones", PhonesNone),
      Patch2("notes", "x", "phones", PhonesList(<< >>)) }

\* Partial inputs of update_passport and update_snils.
PassportPatches == { Patch1("full_name", "Roe John"), Patch1("birth_place", NULL) }
SnilsPatches == { Patch1("number", "112-233-445 96") }

\* Partial updates as crud accepts them: any dict, so also keys that name
\* other attributes of the object, keys that name none, and no key at all.
UpdateClientDict(p, cid) ==
    \/ UpdateClientGet(p, cid, << >>)
    \/ UpdateClientGet(p, cid, Patch1("notes", "x"))
    \/ \E a \in AgentIds : UpdateClientGet(p, cid, Patch2("notes", "x", "agent_id", a))
    \/ \E e \in {1, MaxClients + 1} : UpdateClientGet(p, cid, Patch1("external_id", e))
    \/ UpdateClientGet(p, cid, Patch2("notes", "x", "nickname", "x"))
    \/ UpdateClientGet(p, cid, Patch1("nickname", "x"))
UpdateAgentDict(p, aid) ==
    \/ UpdateAgentGet(p, aid, << >>)
    \/ UpdateAgentGet(p, aid, Patch1("last_name", "Brown"))
    \/ \E e \in {1, MaxAgents + 1} : UpdateAgentGet(p, aid, Patch1("external_id", e))
    \/ UpdateAgentGet(p, aid, Patch2("last_name", "Brown", "nickname", "x"))
    \/ UpdateAgentGet(p, aid, Patch1("correspondent_account", NULL))

\* ---------------------------------------------------------------- specifications
\* One step of handler p in a call on agents, on clients, on owned records.
AgentCalls(p) ==
    \/ CreateAgentFlush(p, AgentIn("Smith", "Jane", NULL))
    \/ CreateAgentCommit(p)
    \/ \E aid \in AgentIds : DeleteAgentGet(p, aid)
    \/ DeleteAgentCount(p)
    \/ DeleteAgentCommit(p)
ClientCalls(p, inputs) ==
    \/ \E c \in inputs : CreateClientCheckAgent(p, c)
    \/ CreateClientFlush(p)
    \/ CreateClientCommit(p)
    \/ \E cid \in ClientIds : DeleteClientGet(p, cid)
    \/ DeleteClientCommit(p)
ReadCalls(p) ==
    \/ \E cid \in ClientIds : GetClientSelect(p, cid)
    \/ GetClientLoadPhones(p)
    \/ GetClientLoadRest(p)
    \/ ListClientsSelect(p, ListArgs(0, DefaultLimit, NULL, NULL, NoId, NULL))
    \/ ListClientsLoadPhones(p)
    \/ ListClientsLoadRest(p)
OwnedCalls(p) ==
    \/ \E cid \in ClientIds : AddPhoneCheck(p, cid, "+2000")
    \/ AddPhoneCommit(p)
    \/ \E cid \in ClientIds : \E d \in PassportInputs : CreatePassportCheck(p, cid, d)
    \/ CreatePassportCommit(p)
    \/ \E cid \in ClientIds : \E d \in SnilsInputs : CreateSnilsCheck(p, cid, d)
    \/ CreateSnilsCommit(p)
OwnedUpdates(p) ==
    \/ \E k \in 1..MaxPhones : DeletePhoneGet(p, k)
    \/ DeletePhoneCommit(p)
    \/ \E k \in 1..MaxDocs : \E d \in PassportPatches : UpdatePassportGet(p, k, d)
    \/ UpdatePassportCommit(p)
    \/ \E k \in 1..MaxDocs : \E d \in SnilsPatches : UpdateSnilsGet(p, k, d)
    \/ UpdateSnilsCommit(p)

\* Concurrent request handlers changing agents and clients, requests as the
\* API layer passes them on.
Next ==
    \E p \in Procs :
        \/ AgentCalls(p)
        \/ ClientCalls(p, ClientInputs)
        \/ \E cid \in ClientIds : \E a \in AgentIds : UpdateClientGet(p, cid, Patch1("agent_id", a))
        \/ UpdateClientCommit(p)
Spec == Init /\ [][Next]_vars

\* Readers running beside handlers that create and delete clients.
NextRead ==
    \E p \in Procs :
        \/ CreateAgentFlush(p, AgentIn("Smith", "Jane", NULL))
        \/ CreateAgentCommit(p)
        \/ ClientCalls(p, {ClientIn(1, "WORKING", ph) :
                                    ph \in {<< >>, <<"+1000">>, <<"+1000", "+1001">>}})
        \/ ReadCalls(p)
SpecRead == Init /\ [][NextRead]_vars

\* One request at a time: creations (some failing), owned records, reads and
\* deletions.
NextSeq ==
    \E p \in {"p1"} :
        \/ AgentCalls(p)
        \/ ClientCalls(p, ClientInputs)
        \/ ReadCalls(p)
        \/ OwnedCalls(p)
SpecSeq == Init /\ [][NextSeq]_vars

\* One caller at a time, every by-id operation on every kind of record.
NextOwned ==
    \E p \in {"p1"} :
        \/ AgentCalls(p)
        \/ ClientCalls(p, {ClientIn(1, "WORKING", <<"+1000">>)})
        \/ \E cid \in ClientIds : UpdateClientGet(p, cid, Patch1("notes", "x"))
        \/ UpdateClientCommit(p)
        \/ \E aid \in AgentIds : UpdateAgentGet(p, aid, Patch1("last_name", "Brown"))
        \/ UpdateAgentCommit(p)
        \/ OwnedCalls(p)
        \/ OwnedUpdates(p)
SpecOwned == Init /\ [][NextOwned]_vars

\* One caller at a time updating a client while the clock runs.
NextTime ==
    \/ Tick
    \/ \E p \in {"p1"} :
          \/ CreateAgentFlush(p, AgentIn("Smith", "Jane", NULL))
          \/ CreateAgentCommit(p)
          \/ ClientCalls(p, {ClientIn(1, "WORKING", << >>)})
          \/ \E cid \in ClientIds : UpdateClientDict(p, cid)
          \/ UpdateClientCommit(p)
SpecTime == Init /\ [][NextTime]_vars

\* The lookup registries with client creation, one call at a time.
NextLookup ==
    \/ \E s \in StatusInputs : CreateStatus("p1", s)
    \/ \E s \in StageInputs : CreateStage("p1", s)
    \/ CreateAgentFlush("p1", AgentIn("Smith", "Jane", NULL))
    \/ CreateAgentCommit("p1")
    \/ ClientCalls("p1", LookupClientInputs)
    \/ ReadCalls("p1")
SpecLookup == Init /\ [][NextLookup]_vars

\* Every mutation, one call at a time, with inputs that the pre-checks or the
\* storage constraints refuse among those they accept.
NextFail ==
    \E p \in {"p1"} :
        \/ AgentCalls(p)
        \/ ClientCalls(p, {ClientIn(1, st, <<"+1000">>) : st \in {"WORKING", "NO_SUCH_STATUS"}})
        \/ \E cid \in ClientIds : \E a \in AgentIds :
              UpdateClientGet(p, cid, Patch2("notes", "x", "agent_id", a))
        \/ UpdateClientCommit(p)
        \/ \E aid \in AgentIds : UpdateAgentGet(p, aid, Patch1("external_id", 1))
        \/ UpdateAgentCommit(p)
        \/ OwnedCalls(p)
        \/ \E k \in DOMAIN passports : UpdatePassportGet(p, k, Patch1("birth_place", NULL))
        \/ UpdatePassportCommit(p)
        \/ \E c \in {"WORKING", "ON_HOLD"} :
              CreateStatus(p, [status_code |-> c, description |-> "first"])
        \/ \E c \in {"MTZ", "FITTING"} :
              CreateStage(p, [stage_code |-> c, description |-> "first"])
SpecFail == Init /\ [][NextFail]_vars

\* Dossier assembly over stores built one call at a time.
NextPaths ==
    \E p \in {"p1"} :
        \/ AgentCalls(p)
        \/ ClientCalls(p, {ClientIn(1, "WORKING", numbers) :
                              numbers \in {<<"+1000">>, <<"+1000", "+1001">>}})
        \/ OwnedCalls(p)
        \/ \E cid \in ClientIds : ClientToDictPaths(p, cid)
SpecPaths == Init /\ [][NextPaths]_vars

\* Paged listing over stores built one call at a time; update_client called
\* with an external id puts the external ids out of creation order.
NextPage ==
    \E p \in {"p1"} :
        \/ CreateAgentFlush(p, AgentIn("Smith", "Jane", NULL))
        \/ CreateAgentCommit(p)
        \/ ClientCalls(p, {ClientIn(1, st, << >>) : st \in {"WORKING", "DONE"}})
        \/ \E cid \in ClientIds : UpdateClientGet(p, cid, Patch1("external_id", MaxClients + 1))
        \/ UpdateClientCommit(p)
        \/ \E args \in ListPages : ListClientsSelect(p, args)
        \/ ListClientsLoadPhones(p)
        \/ ListClientsLoadRest(p)
SpecPage == Init /\ [][NextPage]_vars

\* The database after one create_agent and n create_client calls under that
\* agent, for n around the largest accepted limit.
InitBulk ==
    \E n \in (MaxLimit - 1)..(MaxLimit + 2) :
        /\ agents = Put(<< >>, 1, AgentRow(AgentIn("Smith", "Jane", NULL), 1))
        /\ clients = [c \in 1..n |-> ClientRow(ClientIn(1, "WORKING", << >>), c, 0)]
        /\ phones = << >>
        /\ passports = << >>
        /\ snils = << >>
        /\ statuses = SeedStatuses
        /\ stages = SeedStages
        /\ agent_external_id_seq = 1
        /\ client_external_id_seq = n
        /\ phone_id_seq = 0
        /\ uuids = [agent |-> 1, client |-> n, passport |-> 0, snils |-> 0]
        /\ pc = [p \in Procs |-> "idle"]
        /\ txn = [p \in Procs |-> NoTxn]
        /\ result = [p \in Procs |-> NoResult]
        /\ now = 0
        /\ hist = [ agentIssued |-> <<1>>, clientIssued |-> [c \in 1..n |-> c],
                    agentCreated |-> <<1>>, clientCreated |-> [c \in 1..n |-> c],
                    deletedClients |-> {}, createdWith |-> [c \in 1..n |-> {}],
                    cascaded |-> << >> ]

\* Listing from a large store, through the endpoint and by calling
\* crud.list_clients directly.
NextBulk ==
    \E p \in {"p1"} :
        \/ \E args \in ListLimits : ReadClients(p, args)
        \/ \E args \in ListLimits : ListClientsSelect(p, args)
        \/ ListClientsLoadPhones(p)
        \/ ListClientsLoadRest(p)
SpecBulk == InitBulk /\ [][NextBulk]_vars

\* A reader of dossiers beside one writer that creates a client with a phone
\* and then updates it, adds and deletes phones, and deletes it.
NextRace ==
    \/ \E cid \in ClientIds : GetClientSelect("p1", cid)
    \/ GetClientLoadPhones("p1")
    \/ GetClientLoadRest("p1")
    \/ \E p \in {"p2"} :
          \/ CreateAgentFlush(p, AgentIn("Smith", "Jane", NULL))
          \/ CreateAgentCommit(p)
          \/ ClientCalls(p, {ClientIn(1, "WORKING", <<"+1000">>)})
          \/ \E cid \in ClientIds : UpdateClientGet(p, cid, Patch1("notes", "x"))
          \/ UpdateClientCommit(p)
          \/ \E cid \in ClientIds : AddPhoneCheck(p, cid, "+2000")
          \/ AddPhoneCommit(p)
          \/ \E k \in 1..MaxPhones : DeletePhoneGet(p, k)
          \/ DeletePhoneCommit(p)
SpecRace == Init /\ [][NextRace]_vars

\* Agents and their clients, one call at a time: clients are created under the
\* first agent and reassigned or deleted, agents are deleted and looked up.
NextAgents ==
    \E p \in {"p1"} :
        \/ \E last \in {"Smith", "Brown"} : \E corr \in {NULL, "30101810400000000225"} :
              CreateAgentFlush(p, AgentIn(last, "Jane", corr))
        \/ CreateAgentCommit(p)
        \/ \E aid \in AgentIds : DeleteAgentGet(p, aid)
        \/ DeleteAgentCount(p)
        \/ DeleteAgentCommit(p)
        \/ ClientCalls(p, {ClientIn(1, "WORKING", << >>)})
        \/ \E cid \in ClientIds : \E a \in AgentIds : UpdateClientGet(p, cid, Patch1("agent_id", a))
        \/ UpdateClientCommit(p)
        \/ \E aid \in AgentIds : GetAgent(p, aid)
        \/ \E ext \in AgentIds : GetAgentByExternal(p, ext)
        \/ ListAgents(p, 0, DefaultLimit, NULL)
SpecAgents == Init /\ [][NextAgents]_vars

\* Clients moved between statuses and stages while codes are registered, one
\* call at a time.
\* A Client with phones, a passport and a snils record, updated with partial
\* inputs that do and do not name the phones list, one call at a time.
NextFrame ==
    \E p \in {"p1"} :
        \/ CreateAgentFlush(p, AgentIn("Smith", "Jane", NULL))
        \/ CreateAgentCommit(p)
        \/ ClientCalls(p, {ClientIn(1, "WORKING", <<"+1000">>)})
        \/ OwnedCalls(p)
        \/ \E cid \in ClientIds : \E d \in PhonePatches \cup {Patch1("notes", "x")} :
              UpdateClientGet(p, cid, d)
        \/ UpdateClientCommit(p)
SpecFrame == Init /\ [][NextFrame]_vars

\* Owned records are added by one process while another creates and deletes
\* the clients they belong to.
NextOrphan ==
    \/ \E p \in {"p1"} : OwnedCalls(p)
    \/ \E p \in {"p2"} :
          \/ CreateAgentFlush(p, AgentIn("Smith", "Jane", NULL))
          \/ CreateAgentCommit(p)
          \/ ClientCalls(p, {ClientIn(1, "WORKING", << >>)})
SpecOrphan == Init /\ [][NextOrphan]_vars

NextWorkflow ==
    \E p \in {"p1"} :
        \/ CreateAgentFlush(p, AgentIn("Smith", "Jane", NULL))
        \/ CreateAgentCommit(p)
        \/ ClientCalls(p, {ClientIn(1, st, << >>) : st \in {"WORKING", "DONE", "NO_SUCH_STATUS"}})
        \/ \E cid \in ClientIds : \E d \in StatusPatches \cup StagePatches :
              UpdateClientGet(p, cid, d)
        \/ UpdateClientCommit(p)
        \/ \E d \in {"first", "second"} :
              CreateStatus(p, [status_code |-> "ON_HOLD", description |-> d])
        \/ \E d \in {"first", "second"} :
              CreateStage(p, [stage_code |-> "FITTING", description |-> d])
SpecWorkflow == Init /\ [][NextWorkflow]_vars

\* Filtered listing over stores built one call at a time.
NextList ==
    \E p \in {"p1"} :
        \/ CreateAgentFlush(p, AgentIn("Smith", "Jane", NULL))
        \/ CreateAgentCommit(p)
        \/ ClientCalls(p, ListClientInputs)
        \/ \E args \in ListFilters : ListClientsSelect(p, args)
        \/ ListClientsLoadPhones(p)
        \/ ListClientsLoadRest(p)
SpecList == Init /\ [][NextList]_vars

\* One caller at a time, calling crud's partial updates directly with any dict.
NextCrud ==
    \E p \in {"p1"} :
        \/ AgentCalls(p)
        \/ ClientCalls(p, {ClientIn(aid, "WORKING", << >>) : aid \in AgentIds})
        \/ \E cid \in ClientIds : UpdateClientDict(p, cid)
        \/ UpdateClientCommit(p)
        \/ \E aid \in AgentIds : UpdateAgentDict(p, aid)
        \/ UpdateAgentCommit(p)
SpecCrud == Init /\ [][NextCrud]_vars

\* ---------------------------------------------------------------- properties
Ids(tbl) == {tbl[k].external_id : k \in DOMAIN tbl}
Distinct(log) == \A i, j \in DOMAIN log : i # j => log[i] # log[j]

\* C1: when delete_agent counts the dependents of an agent that at least one
\* Client references, the call ends with the conflict error and no table has
\* changed: the Agent row and every Client row are as they were.
C1_DeleteReferencedAgentRefused ==
    [][\A p \in Procs :
         ( /\ pc[p] = "delete_agent_loaded"
           /\ pc'[p] # "delete_agent_loaded"
           /\ \E c \in DOMAIN clients : clients[c].agent_id = txn[p].agent_id )
         => /\ result'[p].op = "delete_agent"
            /\ result'[p].kind = "conflict"
            /\ store' = store]_vars

\* A delete_agent has just been refused, and the agent and a client that
\* references it are both still there.
C1_Witness ==
    \E p \in Procs :
        /\ result[p].op = "delete_agent"
        /\ result[p].kind = "conflict"
        /\ result[p].agent_id \in DOMAIN agents
        /\ \E c \in DOMAIN clients : clients[c].agent_id = result[p].agent_id

\* C2: in every reachable state every Client's agent_id names an Agent row
\* that exists, whatever the interleaving of create_client, update_client,
\* delete_client and delete_agent.
C2_NoOrphanClient ==
    \A c \in DOMAIN clients : clients[c].agent_id \in DOMAIN agents

\* A delete_agent counted no dependents, a client was then committed under the
\* agent, and the delete was refused by the store.
C2_Witness ==
    \E p \in Procs :
        /\ result[p].op = "delete_agent"
        /\ result[p].kind = "integrity_error"
        /\ \E c \in DOMAIN clients : clients[c].agent_id = result[p].agent_id

\* C3: once delete_client(id) has succeeded, no Phone, Passport or Snils row
\* has client_id = id, the Client row is gone, and a get_client(id) that
\* starts afterwards reports the client as absent.
C3_DeleteClientCascades ==
    /\ \A cid \in hist.deletedClients :
        /\ cid \notin DOMAIN clients
        /\ OwnedBy(phones, cid) = {}
        /\ OwnedBy(passports, cid) = {}
        /\ OwnedBy(snils, cid) = {}
    /\ \A p \in Procs :
        (result[p].op = "get_client" /\ result[p].afterDelete) => result[p].kind = "not_found"

\* A client that owned two phones, a passport and an insurance record has
\* been deleted, and a get_client for it has returned since.
C3_Witness ==
    /\ \E cid \in DOMAIN hist.cascaded :
        /\ Cardinality(hist.cascaded[cid].phones) = 2
        /\ hist.cascaded[cid].passports # {}
        /\ hist.cascaded[cid].snils # {}
    /\ \E p \in Procs : result[p].op = "get_client" /\ result[p].afterDelete

\* C4: a create_client whose agent id matches no Agent row ends at once with
\* the reference-not-found error and writes nothing: no table changes and no
\* sequence or serial is advanced.
C4_CreateClientUnknownAgent ==
    [][\A p \in Procs :
         LET proceeds == pc'[p] = "create_client_checked"
             returns == /\ pc'[p] = "idle"
                        /\ result'[p].op = "create_client"
                        /\ result'[p] # result[p]
             aid == IF proceeds THEN txn'[p].client_in.agent_id ELSE result'[p].agent_id
         IN ( /\ pc[p] = "idle"
              /\ proceeds \/ returns
              /\ aid \notin DOMAIN agents )
            => /\ returns
               /\ result'[p].kind = "reference_not_found"
               /\ store' = store
               /\ seqs' = seqs]_vars

\* A create_client naming an agent id with no row has just been refused.
C4_Witness ==
    \E p \in Procs :
        /\ result[p].op = "create_client"
        /\ result[p].kind = "reference_not_found"
        /\ result[p].agent_id \notin DOMAIN agents
        /\ agents # << >>

\* C5: a reader never sees a Client without the Phones it was created with:
\* every phone inserted by the client's create_client that is still stored is
\* in the phones a get_client or list_clients has loaded for that client.
CreatedPhonesSeen(cid, loaded) ==
    cid \in DOMAIN hist.createdWith
        => \A k \in hist.createdWith[cid] : k \in DOMAIN phones => k \in DOMAIN loaded
C5_CreateClientAllOrNothing ==
    \A p \in Procs :
        /\ pc[p] = "get_client_phones" => CreatedPhonesSeen(txn[p].client_id, txn[p].phones)
        /\ (result[p].op = "get_client" /\ result[p].kind = "ok")
              => CreatedPhonesSeen(result[p].dossier.client_id, result[p].dossier.phones)
        /\ pc[p] = "list_clients_phones"
              => \A cid \in Range(txn[p].ids) : CreatedPhonesSeen(cid, txn[p].phones)
        /\ result[p].op = "list_clients"
              => \A i \in DOMAIN result[p].dossiers :
                    CreatedPhonesSeen(result[p].dossiers[i].client_id,
                                      result[p].dossiers[i].phones)

\* A list_clients has loaded a client together with the phone it was created
\* with, while another handler is between the flush and the commit of a
\* create_client with a phone of its own.
C5_Witness ==
    \E p, q \in Procs :
        /\ pc[p] = "list_clients_phones"
        /\ \E cid \in Range(txn[p].ids) :
              /\ hist.createdWith[cid] # {}
              /\ hist.createdWith[cid] \subseteq DOMAIN txn[p].phones
        /\ pc[q] = "create_client_flushed"
        /\ txn[q].client_in.phones # << >>

\* C6: no two Agents and no two Clients hold the same external_id, in the
\* store or among the rows inserted by creations still in flight.
InFlightIds(label) == {txn[p].row.external_id : p \in {q \in Procs : pc[q] = label}}
InFlightDistinct(label) ==
    \A p, q \in Procs :
        (p # q /\ pc[p] = label /\ pc[q] = label)
            => txn[p].row.external_id # txn[q].row.external_id
C6_ExternalIdsUnique ==
    /\ Cardinality(Ids(agents)) = Cardinality(DOMAIN agents)
    /\ Cardinality(Ids(clients)) = Cardinality(DOMAIN clients)
    /\ InFlightDistinct("create_agent_flushed")
    /\ InFlightDistinct("create_client_flushed")
    /\ Ids(agents) \cap InFlightIds("create_agent_flushed") = {}
    /\ Ids(clients) \cap InFlightIds("create_client_flushed") = {}

\* Two creations overlapped and both succeeded: the agent that drew the later
\* value committed first, and both rows are stored.
C6_Witness ==
    /\ hist.agentCreated = <<2, 1>>
    /\ Cardinality(DOMAIN agents) = 2

\* C7 (as claimed): of two stored Agents the one created first holds the
\* smaller external_id, and likewise for Clients.  Handlers run one at a time
\* here and a row's key is its ordinal of creation, so the smaller key is the
\* row whose creation completed before the other's began.
C7_ExternalIdsIncrease ==
    /\ \A a1, a2 \in DOMAIN agents :
          a1 < a2 => agents[a1].external_id < agents[a2].external_id
    /\ \A c1, c2 \in DOMAIN clients :
          c1 < c2 => clients[c1].external_id < clients[c2].external_id

\* C8 (as claimed): no step changes the external_id of an Agent or Client row
\* that stays in the store.
C8_ExternalIdStable ==
    [][ /\ \A a \in DOMAIN agents \cap DOMAIN agents' :
              agents'[a].external_id = agents[a].external_id
        /\ \A c \in DOMAIN clients \cap DOMAIN clients' :
              clients'[c].external_id = clients[c].external_id ]_vars

\* C9 (as claimed): every successful creation gets 1 + the largest external
\* id a row of its type held before, whatever creations failed in between.
GaplessOnCommit(log) ==
    \A i \in DOMAIN log : log[i] = 1 + MaxOf({log[j] : j \in 1..(i - 1)})
C9_GaplessOnCommit ==
    /\ GaplessOnCommit(hist.agentCreated)
    /\ GaplessOnCommit(hist.clientCreated)

\* C9 (amended): ids are gapless where they are drawn, not where they are
\* committed.  Every insert attempt draws 1 + the value the previous attempt
\* of its type drew, a successful creation keeps the value its attempt drew,
\* one request at a time the successful creations get increasing values, and
\* the value of a failed creation is never handed out again.
Increasing(log) == \A i, j \in DOMAIN log : i < j => log[i] < log[j]
C9_GaplessOnIssuance ==
    /\ \A i \in DOMAIN hist.agentIssued : hist.agentIssued[i] = i
    /\ \A i \in DOMAIN hist.clientIssued : hist.clientIssued[i] = i
    /\ Range(hist.agentCreated) \subseteq Range(hist.agentIssued)
    /\ Range(hist.clientCreated) \subseteq Range(hist.clientIssued)
    /\ Increasing(hist.agentCreated)
    /\ Increasing(hist.clientCreated)

\* The first client creation failed after its insert and the second one
\* succeeded: the first stored Client holds external id 2.
C9_Witness ==
    /\ hist.clientIssued = <<1, 2>>
    /\ hist.clientCreated = <<2>>
    /\ Ids(clients) = {2}

\* C11: an update_client whose input names only things that are no attribute
\* of a Client succeeds, returns the dossier of the row as it was, and changes
\* no row of any table.
C11_UnknownFieldsIgnored ==
    [][\A p \in Procs :
         ( /\ pc[p] = "update_client_loaded"
           /\ pc'[p] # "update_client_loaded"
           /\ txn[p].payload # << >>
           /\ DOMAIN txn[p].payload \cap ClientColumns = {}
           /\ txn[p].client_id \in DOMAIN clients )
         => /\ result'[p].op = "update_client"
            /\ result'[p].kind = "ok"
            /\ result'[p].dossier.client_id = txn[p].client_id
            /\ result'[p].dossier.row = clients[txn[p].client_id]
            /\ store' = store]_vars

\* An update naming only an unknown field has succeeded on a client created
\* earlier by the clock, and the row still carries its first updated_at.
C11_Witness ==
    \E p \in Procs :
        /\ result[p].op = "update_client"
        /\ result[p].kind = "ok"
        /\ DOMAIN result[p].payload = {"nickname"}
        /\ result[p].dossier.row.updated_at < now
        /\ clients[result[p].dossier.client_id] = result[p].dossier.row

\* C13: update_client, delete_client, update_agent, delete_agent, delete_phone,
\* update_passport and update_snils called with an id that has no row return
\* at once with the not-found result (None / False), and no table, sequence or
\* serial has changed.
AbsentTarget(p, op, label, key, tbl) ==
    LET proceeds == pc'[p] = label
        returns == pc'[p] = "idle" /\ result'[p].op = op /\ result'[p] # result[p]
        target == IF proceeds THEN txn'[p][key] ELSE result'[p].target
    IN ( /\ pc[p] = "idle"
         /\ proceeds \/ returns
         /\ target \notin DOMAIN tbl )
       => /\ returns
          /\ result'[p].kind = "not_found"
          /\ store' = store
          /\ seqs' = seqs
C13_AbsentIdNotFound ==
    [][\A p \in Procs :
         /\ AbsentTarget(p, "update_client", "update_client_loaded", "client_id", clients)
         /\ AbsentTarget(p, "delete_client", "delete_client_loaded", "client_id", clients)
         /\ AbsentTarget(p, "update_agent", "update_agent_loaded", "agent_id", agents)
         /\ AbsentTarget(p, "delete_agent", "delete_agent_loaded", "agent_id", agents)
         /\ AbsentTarget(p, "delete_phone", "delete_phone_loaded", "phone_id", phones)
         /\ AbsentTarget(p, "update_passport", "update_passport_loaded", "passport_id", passports)
         /\ AbsentTarget(p, "update_snils", "update_snils_loaded", "snils_id", snils)]_vars

\* A delete_phone has just reported a phone as not found that had existed and
\* was deleted, while other rows are stored.
C13_Witness ==
    \E p \in Procs :
        /\ result[p].op = "delete_phone"
        /\ result[p].kind = "not_found"
        /\ result[p].target <= phone_id_seq
        /\ clients # << >>

\* C14: add_phone, create_passport and create_snils under a client id with no
\* Client row end at once with the reference-not-found error and write
\* nothing; under an existing Client they insert exactly one row, whose
\* client_id is that Client's id, and change no other row.
MissingOwner(p, op, label) ==
    LET proceeds == pc'[p] = label
        returns == pc'[p] = "idle" /\ result'[p].op = op /\ result'[p] # result[p]
        target == IF proceeds THEN txn'[p].client_id ELSE result'[p].target
    IN ( /\ pc[p] = "idle"
         /\ proceeds \/ returns
         /\ target \notin DOMAIN clients )
       => /\ returns
          /\ result'[p].kind = "reference_not_found"
          /\ store' = store
          /\ seqs' = seqs
OneRowAdded(cid, tbl, tblAfter) ==
    \E k \in DOMAIN tblAfter \ DOMAIN tbl :
        /\ DOMAIN tblAfter = DOMAIN tbl \cup {k}
        /\ tblAfter[k].client_id = cid
        /\ \A j \in DOMAIN tbl : tblAfter[j] = tbl[j]
InsertsUnderOwner(p, label) ==
    pc[p] = label /\ pc'[p] = "idle" /\ txn[p].client_id \in DOMAIN clients
C14_OwnedCreation ==
    [][\A p \in Procs :
         /\ MissingOwner(p, "add_phone", "add_phone_checked")
         /\ MissingOwner(p, "create_passport", "create_passport_checked")
         /\ MissingOwner(p, "create_snils", "create_snils_checked")
         /\ InsertsUnderOwner(p, "add_phone_checked")
              => /\ result'[p].kind = "ok"
                 /\ OneRowAdded(txn[p].client_id, phones, phones')
                 /\ UNCHANGED <<agents, clients, passports, snils, statuses, stages>>
         /\ InsertsUnderOwner(p, "create_passport_checked")
              => /\ result'[p].kind = "ok"
                 /\ OneRowAdded(txn[p].client_id, passports, passports')
                 /\ UNCHANGED <<agents, clients, phones, snils, statuses, stages>>
         /\ InsertsUnderOwner(p, "create_snils_checked")
              => /\ result'[p].kind = "ok"
                 /\ OneRowAdded(txn[p].client_id, snils, snils')
                 /\ UNCHANGED <<agents, clients, phones, passports, statuses, stages>>]_vars

\* A passport has been created under a client that already owned a phone, and
\* an add_phone under an id with no Client row has been refused.
C14_Witness ==
    /\ \E k \in DOMAIN passports : \E j \in DOMAIN phones :
          /\ passports[k].client_id \in DOMAIN clients
          /\ phones[j].client_id = passports[k].client_id
    /\ \E p \in Procs : result[p].op = "add_phone" /\ result[p].kind = "reference_not_found"

\* C15: create_status / create_stage with a code already in the table fails
\* with the storage's uniqueness violation and leaves the table as it was, so
\* the existing row keeps its description; no two rows of STATUS, and no two
\* rows of STAGE, ever share a code.
DuplicateRefused(p, op, codes) ==
    (result'[p] # result[p] /\ result'[p].op = op /\ result'[p].code \in codes)
        => result'[p].kind = "integrity_error" /\ store' = store
OneRowPerCode ==
    /\ \A r1, r2 \in statuses : r1.status_code = r2.status_code => r1 = r2
    /\ \A r1, r2 \in stages : r1.stage_code = r2.stage_code => r1 = r2
C15_DuplicateCodeRefused ==
    [][ /\ \A p \in Procs : /\ DuplicateRefused(p, "create_status", StatusCodes)
                            /\ DuplicateRefused(p, "create_stage", StageCodes)
        /\ OneRowPerCode /\ OneRowPerCode' ]_vars

\* A status registered by create_status is in the table and a later
\* create_status of the same code has just been refused.
C15_Witness ==
    \E p \in Procs :
        /\ result[p].op = "create_status" /\ result[p].kind = "integrity_error"
        /\ result[p].code \in StatusCodes
        /\ \E r \in statuses \ SeedStatuses : r.status_code = result[p].code

\* C16: a mutation that ends in a failure of any kind (absent target, absent
\* referenced row, blocked deletion, refused by a storage constraint) leaves
\* every table exactly as it was, and the tables change only in the step in
\* which a call succeeds: no row of a failed call is ever visible.
C16_FailureLeavesStorage ==
    [][ /\ \A p \in Procs :
             (result'[p] # result[p] /\ result'[p].kind \notin {"ok", "none"}) => store' = store
        /\ store' # store => \E p \in Procs : result'[p] # result[p] /\ result'[p].kind = "ok"
      ]_vars

\* create_client under an existing Agent has just been refused by the foreign
\* key on the status code, next to clients created earlier.
C16_Witness ==
    \E p \in Procs :
        /\ result[p].op = "create_client" /\ result[p].kind = "integrity_error"
        /\ pc[p] = "idle"
        /\ DOMAIN agents # {} /\ DOMAIN clients # {} /\ DOMAIN phones # {}

\* C17 (as claimed): once create_passport(client, F) has succeeded, the dossier
\* that get_client returns for the client has an entry for the passport in
\* which every field supplied in F has the value given in F.
C17_PassportRoundTrip ==
    \A p \in Procs :
        (result[p].op = "get_client" /\ result[p].kind = "ok") =>
            \A k \in DOMAIN passports :
                passports[k].client_id = result[p].dossier.client_id =>
                    /\ k \in DOMAIN result[p].dossier.passports
                    /\ \E F \in PassportInputs :
                          \A f \in DOMAIN F :
                              /\ f \in DOMAIN result[p].dossier.passports[k]
                              /\ result[p].dossier.passports[k][f] = F[f]

\* C18 (as claimed): the dossier built from relations loaded together with
\* the Client equals the dossier built by the fallback queries: the same
\* phone, passport and insurance-record entries in the same order, and the
\* same agent summary.
C18_PathsAgree ==
    \A p \in Procs :
        result[p].op = "client_to_dict" => result[p].loaded = result[p].fallback

\* The step in which a create_client call with two phone numbers, whose agent
\* was found, returns or raises.
CreateClientEnds(p) ==
    /\ pc[p] \in {"create_client_checked", "create_client_flushed"}
    /\ pc'[p] = "idle"
    /\ Len(txn[p].client_in.phones) = 2
Populated(summary) == "none" \notin DOMAIN summary

\* C19 (as claimed): create_client under an existing Agent with two phone
\* numbers returns a dossier with two phones and the agent summary, in which
\* the status (stage) summary is present exactly when the code has a lookup
\* row, and is left out without an error otherwise.
C19_SummaryOmittedWithoutError ==
    [][\A p \in Procs :
         CreateClientEnds(p) =>
            /\ result'[p].kind = "ok"
            /\ Cardinality(DOMAIN result'[p].dossier.phones) = 2
            /\ Populated(result'[p].dossier.agent)
            /\ Populated(result'[p].dossier.status)
                  <=> txn[p].client_in.status_code \in StatusCodes
            /\ Populated(result'[p].dossier.stage)
                  <=> txn[p].client_in.current_stage \in StageCodes]_vars

\* C19 (settled): with a status code and a stage code that both have a lookup
\* row the call returns a dossier with two phones, the agent summary and both
\* summaries with the lookup rows' descriptions; with a code that has no
\* lookup row the call fails on the foreign key and the tables stay as they
\* were.
C19_CreateClientDossier ==
    [][\A p \in Procs :
         CreateClientEnds(p) =>
            IF /\ txn[p].client_in.status_code \in StatusCodes
               /\ txn[p].client_in.current_stage \in StageCodes
            THEN /\ result'[p].kind = "ok"
                 /\ Cardinality(DOMAIN result'[p].dossier.phones) = 2
                 /\ {result'[p].dossier.phones[k].number : k \in DOMAIN result'[p].dossier.phones}
                       = Range(txn[p].client_in.phones)
                 /\ Populated(result'[p].dossier.agent)
                 /\ result'[p].dossier.agent.agent_id = txn[p].client_in.agent_id
                 /\ result'[p].dossier.status = GetStatus(txn[p].client_in.status_code)
                 /\ result'[p].dossier.stage = GetStage(txn[p].client_in.current_stage)
            ELSE /\ result'[p].kind = "integrity_error"
                 /\ store' = store]_vars

\* A client has been created with two phones under a status registered by
\* create_status and a stage registered by create_stage.
C19_Witness ==
    \E p \in Procs :
        /\ result[p].op = "create_client" /\ result[p].kind = "ok"
        /\ Cardinality(DOMAIN result[p].dossier.phones) = 2
        /\ result[p].dossier.status \in statuses \ SeedStatuses
        /\ result[p].dossier.stage \in stages \ SeedStages

\* The filters of the claim: q is a substring, in any case, of the last, first
\* or middle name; status, agent and stage are equal to the given values; a
\* filter that is not given excludes nothing.
Satisfies(row, args) ==
    /\ args.q # NULL =>
          \E name \in {row.last_name, row.first_name, row.middle_name} :
              name # NULL /\ Contains(Lower(Chars(name)), Lower(Chars(args.q)))
    /\ args.status # NULL => row.status_code = args.status
    /\ args.agent_id # NoId => row.agent_id = args.agent_id
    /\ args.current_stage # NULL => row.current_stage = args.current_stage

\* C20 (as claimed): with a limit that covers the store, list_clients returns
\* exactly the Clients that satisfy every supplied filter.
C20_FiltersCombine ==
    \A p \in Procs :
        (result[p].op = "list_clients" /\ result[p].kind = "ok" /\ "args" \in DOMAIN result[p]) =>
            {result[p].dossiers[i].client_id : i \in DOMAIN result[p].dossiers}
                = {c \in DOMAIN clients : Satisfies(clients[c], result[p].args)}

\* C21: list_clients returns the matching Clients in ascending order of
\* external id, cut to the slice [skip, skip + limit): the result is strictly
\* ascending, holds only matching Clients, skips exactly the skip smallest,
\* leaves out none between two neighbours, has min(limit, matching - skip)
\* entries, and is empty, with no error, when skip reaches the number of
\* matching Clients.
SliceOf(listed, matching, skip, limit) ==
    LET n == Cardinality(matching)
        ext(c) == clients[c].external_id
    IN /\ Len(listed) = (IF skip >= n THEN 0 ELSE IF n - skip < limit THEN n - skip ELSE limit)
       /\ \A i \in DOMAIN listed :
             /\ listed[i].client_id \in matching
             /\ listed[i].row.external_id = ext(listed[i].client_id)
             /\ Cardinality({c \in matching : ext(c) < listed[i].row.external_id}) = skip + i - 1
C21_OrderedSlice ==
    \A p \in Procs :
        (result[p].op = "list_clients" /\ "args" \in DOMAIN result[p]) =>
            /\ result[p].kind = "ok"
            /\ SliceOf(result[p].dossiers,
                       {c \in DOMAIN clients : Satisfies(clients[c], result[p].args)},
                       result[p].args.skip, result[p].args.limit)

\* A second page of one entry has been listed from a store of two matching
\* clients whose external ids run against their creation order, and it holds
\* the client created first.
C21_Witness ==
    \E p \in Procs :
        /\ result[p].op = "list_clients" /\ result[p].kind = "ok"
        /\ result[p].args.skip = 1 /\ result[p].args.limit = 1
        /\ Len(result[p].dossiers) = 1
        /\ \E c \in DOMAIN clients :
              /\ c > result[p].dossiers[1].client_id
              /\ clients[c].external_id < result[p].dossiers[1].row.external_id

\* C22 (as claimed): for every requested limit M, also above 200, list_clients
\* returns at most min(M, 200) dossiers.
C22_LimitCapped ==
    \A p \in Procs :
        (result[p].op = "list_clients" /\ "args" \in DOMAIN result[p]) =>
            /\ Len(result[p].dossiers) <= result[p].args.limit
            /\ Len(result[p].dossiers) <= MaxLimit

\* C23 (as claimed): the dossier get_client returns is the dossier of one
\* committed state: the one the store held when the read began (before a
\* concurrent mutation) or the one it holds when the read ends (after it),
\* never the Client fields of the one with the collections of the other.
C23_ReadSeesOneState ==
    [][\A p \in Procs :
         (pc[p] = "get_client_phones" /\ pc'[p] = "idle") =>
            \/ result'[p].dossier = txn[p].atSelect
            \/ /\ txn[p].client_id \in DOMAIN clients
               /\ result'[p].dossier =
                     ClientToDict(txn[p].client_id, clients[txn[p].client_id], agents,
                                  phones, passports, snils)]_vars

\* C24: once no Client references an Agent any more (its Clients deleted or
\* reassigned) and nothing else runs, delete_agent counts no dependents, goes
\* on to the DELETE and succeeds, the Agent row is gone, and get_agent,
\* get_agent_by_external and list_agents return only Agents that are stored,
\* so never a deleted one.
Unreferenced(aid) == \A c \in DOMAIN clients : clients[c].agent_id # aid
C24_DeleteAfterDependentsGone ==
    [][\A p \in Procs :
         /\ (pc[p] = "delete_agent_loaded" /\ pc'[p] # pc[p] /\ Unreferenced(txn[p].agent_id))
               => pc'[p] = "delete_agent_counted"
         /\ (pc[p] = "delete_agent_counted" /\ pc'[p] # pc[p] /\ Unreferenced(txn[p].agent_id))
               => /\ result'[p].kind = "ok"
                  /\ txn[p].agent_id \notin DOMAIN agents'
                  /\ \A a \in DOMAIN agents' : agents'[a] = agents[a]
         /\ (result'[p] # result[p]
                /\ result'[p].op \in {"get_agent", "get_agent_by_external", "list_agents"})
               => \A i \in DOMAIN result'[p].agents :
                     /\ result'[p].agents[i].agent_id \in DOMAIN agents
                     /\ result'[p].agents[i] =
                           AgentToDict(result'[p].agents[i].agent_id,
                                       agents[result'[p].agents[i].agent_id])]_vars

\* The first Agent has been deleted although it had Clients: one of them was
\* reassigned to the second Agent and is still stored, another was deleted.
C24_Witness ==
    \E p \in Procs :
        /\ result[p].op = "delete_agent" /\ result[p].kind = "ok" /\ result[p].agent_id = 1
        /\ \E c \in DOMAIN clients : clients[c].agent_id = 2
        /\ hist.deletedClients # {}

\* C25: the Agent row that create_agent commits, and the Agent it returns,
\* carry as correspondent account the one supplied, or the account number
\* when none was supplied; no stored Agent has an empty or missing
\* correspondent account.
C25_CorrespondentAccountDefault ==
    [][ /\ \A p \in Procs :
             (pc[p] = "create_agent_flushed" /\ pc'[p] = "idle") =>
                LET given == txn[p].agent_in.correspondent_account
                    expected == IF given # NULL THEN given ELSE txn[p].agent_in.account_number
                IN /\ result'[p].kind = "ok"
                   /\ txn[p].agent_id \in DOMAIN agents'
                   /\ agents'[txn[p].agent_id].correspondent_account = expected
                   /\ result'[p].agent.correspondent_account = expected
        /\ \A a \in DOMAIN agents' : agents'[a].correspondent_account \notin {NULL, ""}
      ]_vars

\* Two Agents are stored, one created with a correspondent account of its own
\* and one created without, which carries its account number.
C25_Witness ==
    \E a, b \in DOMAIN agents :
        /\ agents[a].correspondent_account = "30101810400000000225"
        /\ agents[b].correspondent_account = agents[b].account_number
        /\ agents[a].account_number # agents[a].correspondent_account

\* C26 (as claimed): a Passport and a Snils record are created with version 1
\* and every successful update_passport / update_snils adds one to the
\* version, so that after n successful updates it is 1 + n.
C26_VersionCounts ==
    [][\A p \in Procs :
         /\ (pc[p] = "create_passport_checked" /\ pc'[p] = "idle" /\ result'[p].kind = "ok")
               => \A k \in DOMAIN passports' \ DOMAIN passports : passports'[k].version = 1
         /\ (pc[p] = "create_snils_checked" /\ pc'[p] = "idle" /\ result'[p].kind = "ok")
               => \A k \in DOMAIN snils' \ DOMAIN snils : snils'[k].version = 1
         /\ (pc[p] = "update_passport_loaded" /\ pc'[p] = "idle" /\ result'[p].kind = "ok")
               => passports'[txn[p].passport_id].version
                    = passports[txn[p].passport_id].version + 1
         /\ (pc[p] = "update_snils_loaded" /\ pc'[p] = "idle" /\ result'[p].kind = "ok")
               => snils'[txn[p].snils_id].version = snils[txn[p].snils_id].version + 1]_vars

\* C27: update_client of an existing Client with a status code (a stage code)
\* that has a lookup row succeeds whatever status and stage the Client has,
\* and the Client then carries the code; the other columns keep their values.
C27_NoWorkflow ==
    [][\A p \in Procs :
         LET cid == txn[p].client_id
             d == txn[p].payload
         IN ( /\ pc[p] = "update_client_loaded" /\ pc'[p] = "idle"
              /\ cid \in DOMAIN clients
              /\ DOMAIN d \subseteq {"status_code", "current_stage"}
              /\ "status_code" \in DOMAIN d => d.status_code \in StatusCodes
              /\ "current_stage" \in DOMAIN d => d.current_stage \in StageCodes )
            => /\ result'[p].kind = "ok"
               /\ \A k \in DOMAIN d : clients'[cid][k] = d[k] /\ result'[p].dossier.row[k] = d[k]
               /\ \A k \in ClientColumns \ (DOMAIN d \cup {"updated_at"}) :
                     clients'[cid][k] = clients[cid][k]]_vars

\* A Client created under a seeded status has been moved by update_client to
\* a status registered later by create_status.
C27_Witness ==
    \E p \in Procs :
        /\ result[p].op = "update_client" /\ result[p].kind = "ok"
        /\ "status_code" \in DOMAIN result[p].payload
        /\ result[p].payload.status_code \notin {r.status_code : r \in SeedStatuses}
        /\ clients[result[p].dossier.client_id].status_code = result[p].payload.status_code

\* C28: in every state each Client's status_code and current_stage are codes
\* of rows of STATUS and STAGE, and no step removes or alters a row of STATUS
\* or STAGE.
CodesExist ==
    \A c \in DOMAIN clients :
        /\ clients[c].status_code \in StatusCodes
        /\ clients[c].current_stage \in StageCodes
C28_CodesAlwaysExist ==
    [][ /\ CodesExist /\ CodesExist'
        /\ statuses \subseteq statuses'
        /\ stages \subseteq stages' ]_vars

\* A Client carries a status and a stage that were registered after the
\* seeding, and an update_client to a code without lookup row has just been
\* refused.
C28_Witness ==
    \E p \in Procs :
        /\ result[p].op = "update_client" /\ result[p].kind = "integrity_error"
        /\ \E c \in DOMAIN clients :
              /\ clients[c].status_code \notin {r.status_code : r \in SeedStatuses}
              /\ clients[c].current_stage \notin {r.stage_code : r \in SeedStages}

\* C29 (as claimed): a successful update_client leaves the Phone, Passport and
\* Snils rows of the Client as they were, whatever the partial input, a phones
\* list included.
OwnedRows(tbl, cid) == [k \in OwnedBy(tbl, cid) |-> tbl[k]]
C29_OwnedRowsKept ==
    [][\A p \in Procs :
         (pc[p] = "update_client_loaded" /\ pc'[p] = "idle" /\ result'[p].kind = "ok")
            => /\ OwnedRows(phones', txn[p].client_id) = OwnedRows(phones, txn[p].client_id)
               /\ OwnedRows(passports', txn[p].client_id)
                    = OwnedRows(passports, txn[p].client_id)
               /\ OwnedRows(snils', txn[p].client_id) = OwnedRows(snils, txn[p].client_id)]_vars

\* C30: while add_phone, create_passport and create_snils run against a
\* concurrent delete_client of their Client, every Phone, Passport and Snils
\* row references a Client that exists, and an insert that fails leaves the
\* three tables as they were.
AllOwned ==
    \A tbl \in {phones, passports, snils} :
        \A k \in DOMAIN tbl : tbl[k].client_id \in DOMAIN clients
InsertEnds(p) ==
    /\ pc[p] \in {"add_phone_checked", "create_passport_checked", "create_snils_checked"}
    /\ pc'[p] = "idle"
C30_NoOrphanRows ==
    [][ /\ AllOwned /\ AllOwned'
        /\ \A p \in Procs :
              (InsertEnds(p) /\ result'[p].kind # "ok")
                 => /\ phones' = phones
                    /\ passports' = passports
                    /\ snils' = snils ]_vars

\* add_phone found its Client, the Client was deleted before the insert, and
\* the insert was refused.
C30_Witness ==
    \E p \in Procs :
        /\ result[p].op = "add_phone" /\ result[p].kind = "integrity_error"
        /\ hist.deletedClients # {}
        /\ AllOwned

\* C12 (as claimed): a successful update_client that began after the stored
\* updated_at returns a dossier whose updated_at is the time of the call, later
\* than the value stored before, whatever the partial input; created_at stays.
C12_UpdatedAtRefreshed ==
    [][\A p \in Procs :
         ( /\ pc[p] = "update_client_loaded"
           /\ result'[p].op = "update_client"
           /\ result'[p].kind = "ok"
           /\ clients[txn[p].client_id].updated_at < txn[p].started )
         => /\ result'[p].dossier.row.updated_at = txn[p].started
            /\ result'[p].dossier.row.updated_at > clients[txn[p].client_id].updated_at
            /\ result'[p].dossier.row.created_at = clients[txn[p].client_id].created_at]_vars

\* C10: a successful update_client sets every Client column named in the
\* payload to the payload's value and leaves every other column of the row as
\* it was; update_agent does the same on Agent columns.
MergePatch(before, after, payload, columns) ==
    \A c \in DOMAIN before :
        \/ after[c] = IF c \in DOMAIN payload \cap columns THEN payload[c] ELSE before[c]
        \/ c = "updated_at" /\ c \notin DOMAIN payload
C10_MergePatch ==
    [][\A p \in Procs :
         /\ ( /\ pc[p] = "update_client_loaded"
              /\ result'[p].op = "update_client"
              /\ result'[p].kind = "ok" )
            => MergePatch(clients[txn[p].client_id], clients'[txn[p].client_id],
                          txn[p].payload, ClientColumns)
         /\ ( /\ pc[p] = "update_agent_loaded"
              /\ result'[p].op = "update_agent"
              /\ result'[p].kind = "ok" )
            => MergePatch(agents[txn[p].agent_id], agents'[txn[p].agent_id],
                          txn[p].payload, AgentColumns)]_vars

\* An update_client naming only external_id has succeeded on a client whose
\* notes an earlier update had set, and the row still carries those notes.
C10_Witness ==
    \E p \in Procs :
        /\ result[p].op = "update_client"
        /\ result[p].kind = "ok"
        /\ DOMAIN result[p].payload = {"external_id"}
        /\ result[p].dossier.row.notes = "x"

====
